---- MODULE Spec2Model ----
(***************************************************************************)
(* Verification model of the pandsqai quiz front end and of the question   *)
(* generator it consumes.                                                  *)
(*                                                                         *)
(* Text is a sequence of one-character strings, so that trimming,          *)
(* whitespace collapsing, lowercasing and number formatting are computed   *)
(* character by character as the JavaScript does.                          *)
(***************************************************************************)
EXTENDS Integers, Sequences, FiniteSets, TLC

(***************************************************************************)
(* Bounds of the model                                                     *)
(***************************************************************************)
MaxTextLen == 2
MaxScoreQs == 2
MaxCols == 2
MaxSeed == 1
MaxLimit == 4
MaxEntropy == 2
MaxFetches == 3
MaxRequests == 3
MaxReqId == 3
MaxAppCalls == 4
MaxSqlLoads == 3
MaxMfCalls == 3

(***************************************************************************)
(* State                                                                   *)
(***************************************************************************)
VARIABLES
  \* one call isShortAnswerCorrect(saQ, saText) and what it returned
  saQ, saText, saOut,
  \* one call computeScore(scAnswers, scQuestions) and what it returned;
  \* scAgain is what a second call on the same arguments returned
  scQuestions, scAnswers, scOut, scAgain,
  \* two requests generate(gProfile, gDataset, gSeed, gLimit) and what each
  \* returned; gEntropy is the ambient state (wall clock, global random
  \* source) of the serving process
  \* gAt[r] is the ambient state request r was served in
  gProfile, gDataset, gSeed, gLimit, gEntropy, gOut, gAt,
  \* QuizPlay: the dataset_id prop, the component state, and the getQuestions
  \* calls that have not settled (each with the answerMap its closure holds)
  dataset_id, data, quizLoading, quizErr, i, locked, score, answerMap,
  selectedIndex, textInput, fetches, issued,
  \* the profile cache: pcCache[k] is the entry visible for dataset identity
  \* k; request r profiles the dataset pcKey[r], is at pcPhase[r], holds the
  \* profile it computed in pcLocal[r] and answered pcResult[r]; pcClock is
  \* the wall clock of the serving process
  pcCache, pcKey, pcPhase, pcLocal, pcResult, pcClock,
  \* DatasetViewport: the props dataset_id, viewRows, viewCols; the state
  \* rowStart, colStart, loading, err, chunk; the refs; the getMultiChunk
  \* calls that have not settled; the number of window timers that are set
  dvDataset, viewRows, viewCols, rowStart, colStart, dvLoading, dvErr, chunk,
  reqIdRef, draggingRef, startRef, pendingRef, timerRef, dvInflight, dvTimers,
  \* history: the target of the last schedulePanUpdate that is not applied
  \* yet, the id of the last call that answered without being aborted, and
  \* the id of the last call that settled when it was no longer the latest
  dvTarget, dvAnswered, dvStale,
  \* App: the state info, err, tab, page, loadingPast, and the calls of
  \* listDatasets, uploadDataset and getDataset that have not settled
  info, appErr, tab, page, loadingPast, appCalls, appIssued,
  \* SqlEditorPanel: the dataset_id prop, the state info, loading, sqlReady,
  \* the errors, the database in dbRef, the module's sqlJsLoader promise, the
  \* runs of load() that have not finished, and what the last Run queried
  sqlDatasetId, sqlInfo, sqlLoading, sqlReady, sqlErr, dbRef, sqlJsLoader,
  sqlLoads, sqlIssued, sqlRan,
  \* MultiFileHome: the server's current datasets, the state datasets,
  \* loading, err, selectedFile, uploading, mutating, the calls in flight,
  \* and (history) how the last handler run ended
  mfServer, mfDatasets, mfLoading, mfErr, selectedFile, uploading, mutating,
  mfCalls, mfIssued, mfDone

shortVars == << saQ, saText, saOut >>
scoreVars == << scQuestions, scAnswers, scOut, scAgain >>
genVars == << gProfile, gDataset, gSeed, gLimit, gEntropy, gOut, gAt >>
quizVars == << dataset_id, data, quizLoading, quizErr, i, locked, score, answerMap,
              selectedIndex, textInput, fetches, issued >>
cacheVars == << pcCache, pcKey, pcPhase, pcLocal, pcResult, pcClock >>
viewVars == << dvDataset, viewRows, viewCols, rowStart, colStart, dvLoading, dvErr, chunk,
              reqIdRef, draggingRef, startRef, pendingRef, timerRef, dvInflight, dvTimers,
              dvTarget, dvAnswered, dvStale >>
appVars == << info, appErr, tab, page, loadingPast, appCalls, appIssued >>
sqlVars == << sqlDatasetId, sqlInfo, sqlLoading, sqlReady, sqlErr, dbRef, sqlJsLoader,
             sqlLoads, sqlIssued, sqlRan >>
mfVars == << mfServer, mfDatasets, mfLoading, mfErr, selectedFile, uploading, mutating,
            mfCalls, mfIssued, mfDone >>
vars == << shortVars, scoreVars, genVars, quizVars, cacheVars, viewVars, appVars, sqlVars,
           mfVars >>

\* the variables outside one component
outsideShort == << scoreVars, genVars, quizVars, cacheVars, viewVars, appVars, sqlVars, mfVars >>
outsideScore == << shortVars, genVars, quizVars, cacheVars, viewVars, appVars, sqlVars, mfVars >>
outsideGen == << shortVars, scoreVars, quizVars, cacheVars, viewVars, appVars, sqlVars, mfVars >>
outsideQuiz == << shortVars, scoreVars, genVars, cacheVars, viewVars, appVars, sqlVars, mfVars >>
outsideCache == << shortVars, scoreVars, genVars, quizVars, viewVars, appVars, sqlVars, mfVars >>
outsideApp == << shortVars, scoreVars, genVars, quizVars, cacheVars, viewVars, sqlVars, mfVars >>
outsideSql == << shortVars, scoreVars, genVars, quizVars, cacheVars, viewVars, appVars, mfVars >>
outsideMf == << shortVars, scoreVars, genVars, quizVars, cacheVars, viewVars, appVars, sqlVars >>
outsideView == << shortVars, scoreVars, genVars, quizVars, cacheVars, appVars, sqlVars, mfVars >>

(***************************************************************************)
(* Values                                                                  *)
(***************************************************************************)
\* choices?: string[] of a question, and string[] | null of getChoices
NoChoices == [present |-> FALSE]
SomeChoices(list) == [present |-> TRUE, list |-> list]

\* number | null: null is held as the one integer no index is equal to
NullIndex == 0 - 1

\* answers[q.id] === undefined
NoAnswer == [kind |-> "none"]

\* ground-truth values as they arrive in the JSON payload (answer: unknown)
NullAns == [t |-> "null"]
StrAns(s) == [t |-> "string", v |-> s]
\* a number with at most two decimals, held as hundredths (3167 is 31.67)
NumAns(h) == [t |-> "number", v |-> h]
BoolAns(b) == [t |-> "boolean", v |-> b]
\* the date-range answer {min, max}
RangeAns(lo, hi) == [t |-> "object", min |-> lo, max |-> hi]

\* a question of the /questions payload; the prompt names the kind and the column
Question(id, type, column, choices, answer) ==
  [id |-> id, type |-> type, prompt |-> << type, column >>, choices |-> choices,
   answer |-> answer, metadata |-> [column |-> column]]

McSaved(n) == [kind |-> "mc", index |-> n]
TextSaved(s) == [kind |-> "text", value |-> s]

(***************************************************************************)
(* Characters                                                              *)
(***************************************************************************)
UpperChars == << "A","B","C","D","E","F","G","H","I","J","K","L","M",
                 "N","O","P","Q","R","S","T","U","V","W","X","Y","Z" >>
LowerChars == << "a","b","c","d","e","f","g","h","i","j","k","l","m",
                 "n","o","p","q","r","s","t","u","v","w","x","y","z" >>
DigitChars == << "0","1","2","3","4","5","6","7","8","9" >>

\* the characters the regular expression class \s matches
IsSpace(c) == c \in {" ", "\t", "\n"}

toLowerCaseChar(c) ==
  IF \E k \in 1..26 : UpperChars[k] = c
  THEN LowerChars[CHOOSE k \in 1..26 : UpperChars[k] = c]
  ELSE c

toLowerCase(s) == [k \in 1..Len(s) |-> toLowerCaseChar(s[k])]

RECURSIVE trimStart(_)
trimStart(s) ==
  IF s = << >> THEN s
  ELSE IF IsSpace(Head(s)) THEN trimStart(Tail(s)) ELSE s

RECURSIVE trimEnd(_)
trimEnd(s) ==
  IF s = << >> THEN s
  ELSE IF IsSpace(s[Len(s)]) THEN trimEnd(SubSeq(s, 1, Len(s) - 1)) ELSE s

trim(s) == trimEnd(trimStart(s))

\* s.replace(/\s+/g, " "): every maximal whitespace run becomes one space
RECURSIVE collapseSpaces(_)
collapseSpaces(s) ==
  IF s = << >> THEN s
  ELSE IF IsSpace(Head(s)) THEN << " " >> \o collapseSpaces(trimStart(s))
  ELSE << Head(s) >> \o collapseSpaces(Tail(s))

(***************************************************************************)
(* String(number) for numbers with at most two decimals                    *)
(***************************************************************************)
RECURSIVE natToString(_)
natToString(n) ==
  IF n < 10 THEN << DigitChars[n + 1] >>
  ELSE natToString(n \div 10) \o << DigitChars[(n % 10) + 1] >>

numberToString(h) ==
  LET a == IF h < 0 THEN 0 - h ELSE h
      whole == a \div 100
      frac == a % 100
      sign == IF h < 0 THEN << "-" >> ELSE << >>
      fracStr == IF frac = 0 THEN << >>
                 ELSE IF frac % 10 = 0 THEN << ".", DigitChars[(frac \div 10) + 1] >>
                 ELSE << ".", DigitChars[(frac \div 10) + 1], DigitChars[(frac % 10) + 1] >>
  IN sign \o natToString(whole) \o fracStr

\* JSON.stringify of a string without characters that need escaping
jsonString(s) == << "\"" >> \o s \o << "\"" >>

\* JSON.stringify({min, max})
jsonRange(lo, hi) ==
  << "{" >> \o jsonString(<< "m","i","n" >>) \o << ":" >> \o jsonString(lo)
  \o << "," >> \o jsonString(<< "m","a","x" >>) \o << ":" >> \o jsonString(hi)
  \o << "}" >>

(***************************************************************************)
(* QuizPlay: pure helpers                                                  *)
(***************************************************************************)
isQuizItem(q) ==
  /\ "id" \in DOMAIN q
  /\ "prompt" \in DOMAIN q
  /\ "choices" \in DOMAIN q
  /\ "answer" \in DOMAIN q

getChoices(q) == IF ~isQuizItem(q) THEN NoChoices ELSE q.choices

toAnswerString(ans) ==
  CASE ans.t = "null" -> << >>
    [] ans.t = "string" -> ans.v
    [] ans.t = "number" -> numberToString(ans.v)
    [] ans.t = "boolean" -> IF ans.v THEN << "t","r","u","e" >> ELSE << "f","a","l","s","e" >>
    [] ans.t = "object" -> jsonRange(ans.min, ans.max)

\* normalizeText that forgets .toLowerCase()
normalizeTextNoLower(s) == collapseSpaces(trim(s))

normalizeText(s) == toLowerCase(collapseSpaces(trim(s)))

\* choices.findIndex(...), 0-based, -1 when nothing matches
\* findIndex that reports the 1-based position of the match
RECURSIVE findIndexOneBased(_, _, _)
findIndexOneBased(choices, ansStr, k) ==
  IF k > Len(choices) THEN 0 - 1
  ELSE IF choices[k] = ansStr THEN k
  ELSE findIndexOneBased(choices, ansStr, k + 1)

RECURSIVE findIndexFrom(_, _, _)
findIndexFrom(choices, ansStr, k) ==
  IF k > Len(choices) THEN 0 - 1
  ELSE IF choices[k] = ansStr THEN k - 1
  ELSE findIndexFrom(choices, ansStr, k + 1)

\* getCorrectIndex that tests idx > 0 instead of idx >= 0
getCorrectIndexPositiveOnly(q, choices) ==
  IF ~choices.present \/ ~isQuizItem(q) THEN NullIndex
  ELSE LET idx == findIndexFrom(choices.list, toAnswerString(q.answer), 1)
       IN IF idx > 0 THEN idx ELSE NullIndex

getCorrectIndex(q, choices) ==
  IF ~choices.present \/ ~isQuizItem(q) THEN NullIndex
  ELSE LET idx == findIndexFrom(choices.list, toAnswerString(q.answer), 1)
       IN IF idx >= 0 THEN idx ELSE NullIndex

\* isShortAnswerCorrect without the truth.length > 0 guard
isShortAnswerCorrectNoGuard(q, userText) ==
  IF ~isQuizItem(q) THEN FALSE
  ELSE normalizeText(userText) = normalizeText(toAnswerString(q.answer))

isShortAnswerCorrect(q, userText) ==
  IF ~isQuizItem(q) THEN FALSE
  ELSE LET truth == normalizeText(toAnswerString(q.answer))
           got == normalizeText(userText)
       IN Len(truth) > 0 /\ got = truth

\* answers[id] of a JavaScript record: undefined when the key is absent
\* mutant of savedOf: a missing entry reads as the first choice
savedOfFirstChoice(answers, id) == IF id \in DOMAIN answers THEN answers[id] ELSE McSaved(0)

savedOf(answers, id) == IF id \in DOMAIN answers THEN answers[id] ELSE NoAnswer

\* one iteration of the loop of computeScore: what question q adds to s
scoreOne(answers, q) ==
  IF ~isQuizItem(q) THEN 0
  ELSE LET saved == savedOf(answers, q.id)
           choices == getChoices(q)
       IN IF choices.present
          THEN LET correctIdx == getCorrectIndex(q, choices)
               IN IF saved.kind = "mc" /\ correctIdx # NullIndex /\ saved.index = correctIdx
                  THEN 1 ELSE 0
          ELSE IF saved.kind = "text" /\ isShortAnswerCorrect(q, saved.value)
               THEN 1 ELSE 0

RECURSIVE computeScoreFrom(_, _, _)
computeScoreFrom(answers, questions, k) ==
  IF k > Len(questions) THEN 0
  ELSE scoreOne(answers, questions[k]) + computeScoreFrom(answers, questions, k + 1)

\* computeScore whose loop starts at the second question
computeScoreSkipFirst(answers, questions) == computeScoreFrom(answers, questions, 2)

\* mutant of computeScore: the accumulator s lives outside the function and
\* is not reset, so a call starts from what the previous call returned
computeScoreCarry(answers, questions) ==
  (IF scOut.status = "returned" THEN scOut.value ELSE 0)
    + computeScoreFrom(answers, questions, 1)

computeScore(answers, questions) == computeScoreFrom(answers, questions, 1)

(***************************************************************************)
(* Question generator (server side)                                        *)
(***************************************************************************)
TxtInteger == << "i","n","t","e","g","e","r" >>
TxtFloat == << "f","l","o","a","t" >>
TxtBoolean == << "b","o","o","l","e","a","n" >>
TxtDatetime == << "d","a","t","e","t","i","m","e" >>
TxtString == << "s","t","r","i","n","g" >>
TxtTrue == << "t","r","u","e" >>
TxtFalse == << "f","a","l","s","e" >>

\* the closed set of dtypes, in catalog order
DTypes == << TxtInteger, TxtFloat, TxtBoolean, TxtDatetime, TxtString >>

\* the closed set of question kinds, in catalog order
Kinds == << "col_dtype_id", "col_missing_pct", "col_unique_count", "col_topk_value",
            "col_numeric_min", "col_numeric_max", "col_numeric_mean", "col_date_range" >>

\* which template is considered for which column
Eligible(kind, col) ==
  CASE kind \in {"col_dtype_id", "col_missing_pct", "col_unique_count"} -> TRUE
    [] kind = "col_topk_value" ->
         col.dtype \in {TxtString, TxtBoolean} /\ Len(col.top_k) > 0
    [] kind \in {"col_numeric_min", "col_numeric_max", "col_numeric_mean"} ->
         col.dtype \in {TxtInteger, TxtFloat}
    [] kind = "col_date_range" -> col.dtype = TxtDatetime

\* all eligible (kind, column index) pairs: columns in profile order, kinds in
\* catalog order within a column
RECURSIVE candidatesFrom(_, _, _)
candidatesFrom(profile, c, k) ==
  IF c > Len(profile.columns) THEN << >>
  ELSE IF k > Len(Kinds) THEN candidatesFrom(profile, c + 1, 1)
  ELSE (IF Eligible(Kinds[k], profile.columns[c])
        THEN << [kind |-> Kinds[k], col |-> c] >> ELSE << >>)
       \o candidatesFrom(profile, c, k + 1)

candidates(profile) == candidatesFrom(profile, 1, 1)

\* the pseudo-random stream: a linear congruential generator
rngNext(state) == (state * 75 + 74) % 65537

\* ambient seeding: the stream also depends on the state of the process
seedStreamAmbient(dataset, seed) == (dataset * 31 + seed + 1 + gEntropy) % 65537

\* the stream is seeded from (dataset identity, seed) and nothing else
seedStream(dataset, seed) == (dataset * 31 + seed + 1) % 65537

\* Fisher-Yates from position m down to 2, drawing from the stream
RECURSIVE shuffleFrom(_, _, _)
shuffleFrom(list, rng, m) ==
  IF m < 2 THEN [list |-> list, rng |-> rng]
  ELSE LET r == rngNext(rng)
           j == 1 + (r % m)
       IN shuffleFrom([list EXCEPT ![m] = list[j], ![j] = list[m]], r, m - 1)

\* draws every position independently: an entry can come up twice
RECURSIVE sampleFrom(_, _, _)
sampleFrom(list, rng, m) ==
  IF m < 1 THEN [list |-> << >>, rng |-> rng]
  ELSE LET r == rngNext(rng)
           rest == sampleFrom(list, r, m - 1)
       IN [list |-> << list[1 + (r % Len(list))] >> \o rest.list, rng |-> rest.rng]

shuffleWithReplacement(list, rng) == sampleFrom(list, rng, Len(list))

shuffle(list, rng) == shuffleFrom(list, rng, Len(list))

\* takes one entry too many
takeFirstOffByOne(list, n) ==
  IF n < 0 THEN << >> ELSE SubSeq(list, 1, IF n + 1 < Len(list) THEN n + 1 ELSE Len(list))

\* mutant of takeFirst: a negative n counts from the end (list[:n])
takeFirstNegativeSlice(list, n) ==
  IF n < 0 THEN SubSeq(list, 1, IF Len(list) + n > 0 THEN Len(list) + n ELSE 0)
  ELSE SubSeq(list, 1, IF n < Len(list) THEN n ELSE Len(list))

\* the first n entries, all of them when there are fewer, none when n <= 0
takeFirst(list, n) ==
  IF n <= 0 THEN << >> ELSE SubSeq(list, 1, IF n < Len(list) THEN n ELSE Len(list))

\* round(null_count / n_rows * 100, 1), in hundredths
missingPct(col, n_rows) ==
  IF n_rows = 0 THEN 0
  ELSE 10 * ((2000 * col.null_count + n_rows) \div (2 * n_rows))

topKValues(col) == [k \in 1..Len(col.top_k) |-> col.top_k[k].value]

questionId(dataset, seed, pos) == << "q", dataset, seed, pos >>

\* one template: the question of a candidate, and the stream after its draws
template(profile, cand, id, rng) ==
  LET col == profile.columns[cand.col]
      mk(choices, answer) == Question(id, cand.kind, col.name, choices, answer)
  IN CASE cand.kind = "col_dtype_id" ->
            LET sh == shuffle(DTypes, rng)
            IN [q |-> mk(SomeChoices(sh.list), StrAns(col.dtype)), rng |-> sh.rng]
       [] cand.kind = "col_missing_pct" ->
            [q |-> mk(NoChoices, NumAns(missingPct(col, profile.n_rows))), rng |-> rng]
       [] cand.kind = "col_unique_count" ->
            [q |-> mk(NoChoices, NumAns(100 * col.unique_count)), rng |-> rng]
       [] cand.kind = "col_topk_value" ->
            IF Len(col.top_k) >= 3
            THEN LET sh == shuffle(topKValues(col), rng)
                 IN [q |-> mk(SomeChoices(sh.list), StrAns(col.top_k[1].value)), rng |-> sh.rng]
            ELSE [q |-> mk(NoChoices, StrAns(col.top_k[1].value)), rng |-> rng]
       [] cand.kind = "col_numeric_min" -> [q |-> mk(NoChoices, NumAns(col.min)), rng |-> rng]
       [] cand.kind = "col_numeric_max" -> [q |-> mk(NoChoices, NumAns(col.max)), rng |-> rng]
       [] cand.kind = "col_numeric_mean" -> [q |-> mk(NoChoices, NumAns(col.mean)), rng |-> rng]
       [] cand.kind = "col_date_range" ->
            [q |-> mk(NoChoices, RangeAns(col.min_ts, col.max_ts)), rng |-> rng]

\* the questions of the chosen candidates from position pos on
RECURSIVE buildQuestions(_, _, _, _, _, _)
buildQuestions(profile, dataset, seed, chosen, pos, rng) ==
  IF pos > Len(chosen) THEN << >>
  ELSE LET t == template(profile, chosen[pos], questionId(dataset, seed, pos), rng)
       IN << t.q >> \o buildQuestions(profile, dataset, seed, chosen, pos + 1, t.rng)

generate(profile, dataset, seed, limit) ==
  LET sh == shuffle(candidates(profile), seedStream(dataset, seed))
      chosen == takeFirst(sh.list, limit)
      questions == buildQuestions(profile, dataset, seed, chosen, 1, sh.rng)
  IN [dataset_id |-> dataset, seed |-> seed, count |-> Len(questions), questions |-> questions]

(***************************************************************************)
(* Calls                                                                   *)
(***************************************************************************)
\* a call that has not returned yet
Pending == [status |-> "pending"]
Returned(v) == [status |-> "returned", value |-> v]

(***************************************************************************)
(* Inputs                                                                  *)
(***************************************************************************)
RECURSIVE SeqsUpTo(_, _)
SeqsUpTo(S, n) ==
  IF n = 0 THEN { << >> }
  ELSE LET shorter == SeqsUpTo(S, n - 1)
       IN shorter \cup { Append(s, c) : s \in { t \in shorter : Len(t) = n - 1 }, c \in S }

TxtNY == << "N","Y" >>
TxtLA == << "L","A" >>
TxtSF == << "S","F" >>
Txt3167 == << "3","1",".","6","7" >>
Txt316 == << "3","1",".","6" >>

\* what a user can type into the answer box
TypedChars == { "a", "A", " ", "\t" }
UserTexts ==
  SeqsUpTo(TypedChars, MaxTextLen)
  \cup { Txt3167, Txt316, << " " >> \o Txt3167, << "3","1",".","6","0" >>,
         TxtNY, << "n","y" >>, << "n"," ","y" >>,
         << "a"," "," ","A" >>, << "t","r","u","e" >>, << "T","R","U","E" >> }

\* ground truths of short-answer questions
ShortTruths ==
  { NumAns(3167), NumAns(3160), NumAns(0 - 50), NumAns(300),
    StrAns(TxtNY), StrAns(<< "a"," ","A" >>), StrAns(<< "A","\t"," ","a" >>),
    StrAns(<< >>), StrAns(<< " " >>), StrAns(<< "\t"," " >>), NullAns,
    BoolAns(TRUE), RangeAns(<< "1" >>, << "2" >>) }

\* the id of the question at position k of a question list
IdAt(k) == << "q", k >>

\* question bodies the scorer is run on: [choices, answer]
ScoreBodies ==
  { [choices |-> SomeChoices(<< TxtNY, TxtLA, TxtSF >>), answer |-> StrAns(TxtNY)],
    [choices |-> SomeChoices(<< TxtLA, TxtNY >>), answer |-> StrAns(TxtNY)],
    [choices |-> SomeChoices(<< TxtLA, TxtSF >>), answer |-> StrAns(TxtNY)],
    [choices |-> SomeChoices(<< TxtLA, TxtNY, TxtNY >>), answer |-> StrAns(TxtNY)],
    [choices |-> NoChoices, answer |-> NumAns(3167)],
    [choices |-> NoChoices, answer |-> StrAns(TxtNY)],
    [choices |-> NoChoices, answer |-> StrAns(<< " " >>)],
    [choices |-> NoChoices, answer |-> NullAns] }

ScoreQuestionLists ==
  { [k \in 1..Len(bs) |-> Question(IdAt(k), "col_any", "c", bs[k].choices, bs[k].answer)] :
      bs \in SeqsUpTo(ScoreBodies, MaxScoreQs) }

ScoreSaved ==
  { McSaved(n) : n \in 0..2 }
  \cup { TextSaved(s) : s \in { Txt3167, Txt316, TxtNY, << "n","y" >>, << " " >>, << >> } }

ScoreAnswerMaps ==
  UNION { [D -> ScoreSaved] : D \in SUBSET { IdAt(k) : k \in 1..MaxScoreQs } }

\* dataset identities (content fingerprints)
Datasets == { 1, 2 }

\* column profiles of four-row datasets
ColAge ==
  [name |-> "age", dtype |-> TxtInteger, null_count |-> 1, unique_count |-> 3,
   min |-> 2500, mean |-> 3167, max |-> 4000]
ColCity ==
  [name |-> "city", dtype |-> TxtString, null_count |-> 0, unique_count |-> 3,
   top_k |-> << [value |-> TxtNY, count |-> 2], [value |-> TxtLA, count |-> 1],
                [value |-> TxtSF, count |-> 1] >>]
ColFlag ==
  [name |-> "flag", dtype |-> TxtBoolean, null_count |-> 2, unique_count |-> 2,
   top_k |-> << [value |-> TxtTrue, count |-> 1], [value |-> TxtFalse, count |-> 1] >>]
ColWhen ==
  [name |-> "when", dtype |-> TxtDatetime, null_count |-> 0, unique_count |-> 4,
   min_ts |-> << "2","0","2","0" >>, max_ts |-> << "2","0","2","4" >>]
ColNote ==
  [name |-> "note", dtype |-> TxtString, null_count |-> 4, unique_count |-> 0,
   top_k |-> << >>]

ColumnPool == { ColAge, ColCity, ColFlag, ColWhen, ColNote }

\* profiles: up to MaxCols columns with unique names
Profiles ==
  { [n_rows |-> 4, n_cols |-> Len(cols), columns |-> cols] :
      cols \in { cs \in SeqsUpTo(ColumnPool, MaxCols) :
                   \A a, b \in 1..Len(cs) : a # b => cs[a].name # cs[b].name } }

(***************************************************************************)
(* isShortAnswerCorrect as a call                                          *)
(***************************************************************************)
ShortInit ==
  /\ saQ \in { Question(IdAt(1), "col_any", "c", NoChoices, a) : a \in ShortTruths }
  /\ saText \in UserTexts
  /\ saOut = Pending

ShortIdle ==
  /\ saQ = Question(IdAt(1), "col_any", "c", NoChoices, NullAns)
  /\ saText = << >>
  /\ saOut = Returned(FALSE)

CallIsShortAnswerCorrect ==
  /\ saOut = Pending
  /\ saOut' = Returned(isShortAnswerCorrect(saQ, saText))
  /\ UNCHANGED << saQ, saText >>
  /\ UNCHANGED outsideShort

(***************************************************************************)
(* computeScore as a call                                                  *)
(***************************************************************************)
ScoreInit ==
  /\ scQuestions \in ScoreQuestionLists
  /\ scAnswers \in ScoreAnswerMaps
  /\ scOut = Pending
  /\ scAgain = Pending

ScoreIdle ==
  /\ scQuestions = << >> /\ scAnswers = << >>
  /\ scOut = Returned(0) /\ scAgain = Returned(0)

CallComputeScore ==
  /\ scOut = Pending
  /\ scOut' = Returned(computeScore(scAnswers, scQuestions))
  /\ UNCHANGED << scQuestions, scAnswers, scAgain >>
  /\ UNCHANGED outsideScore

\* the same call once more, on the arguments the first call left behind
CallComputeScoreAgain ==
  /\ scOut # Pending /\ scAgain = Pending
  /\ scAgain' = Returned(computeScore(scAnswers, scQuestions))
  /\ UNCHANGED << scQuestions, scAnswers, scOut >>
  /\ UNCHANGED outsideScore

(***************************************************************************)
(* generate as a request, served twice                                     *)
(***************************************************************************)
GenInit ==
  /\ gProfile \in Profiles
  /\ gDataset \in Datasets
  /\ gSeed \in 0..MaxSeed
  /\ gLimit \in (0 - 1)..MaxLimit
  /\ gEntropy = 0
  /\ gOut = [r \in 1..2 |-> Pending]
  /\ gAt = [r \in 1..2 |-> 0]

GenIdle ==
  /\ gProfile = [n_rows |-> 0, n_cols |-> 0, columns |-> << >>]
  /\ gDataset = 1
  /\ gSeed = 0
  /\ gLimit = 0
  /\ gEntropy = 0
  /\ gOut = [r \in 1..2 |-> Returned(generate(gProfile, 1, 0, 0))]
  /\ gAt = [r \in 1..2 |-> 0]

\* request r is served
CallGenerate(r) ==
  /\ gOut[r] = Pending
  /\ gOut' = [gOut EXCEPT ![r] = Returned(generate(gProfile, gDataset, gSeed, gLimit))]
  /\ gAt' = [gAt EXCEPT ![r] = gEntropy]
  /\ UNCHANGED << gProfile, gDataset, gSeed, gLimit, gEntropy >>
  /\ UNCHANGED outsideGen

\* time passes and other requests consume ambient randomness
AmbientStep ==
  /\ \E r \in 1..2 : gOut[r] = Pending
  /\ gEntropy < MaxEntropy
  /\ gEntropy' = gEntropy + 1
  /\ UNCHANGED << gProfile, gDataset, gSeed, gLimit, gOut, gAt >>
  /\ UNCHANGED outsideGen

(***************************************************************************)
(* QuizPlay                                                                *)
(***************************************************************************)
\* data: QuestionsResponse | null
NoData == [present |-> FALSE]
SomeData(questions) == [present |-> TRUE, questions |-> questions]

\* Record<string, SavedAnswer> with no key
EmptyAnswers == << >>

\* what GET /questions answers for (dataset_id, limit, seed) of the props
QuizServer(ds) ==
  CASE ds = 1 ->
         << Question(questionId(1, 0, 1), "col_topk_value", "city",
                     SomeChoices(<< TxtLA, TxtNY, TxtSF >>), StrAns(TxtNY)),
            Question(questionId(1, 0, 2), "col_topk_value", "flag",
                     NoChoices, StrAns(TxtTrue)) >>
    [] ds = 2 ->
         << Question(questionId(2, 0, 1), "col_numeric_mean", "age",
                     NoChoices, NumAns(3167)) >>
    [] ds = 3 -> << >>

QuizDatasets == { 1, 2, 3 }

\* what the text box can hold after a change event
QuizTexts == { << >>, << " " >>, TxtTrue, << "T","R","U","E"," " >>, Txt3167, Txt316 }

total == IF data.present THEN Len(data.questions) ELSE 0

\* q = data?.questions?.[i] is defined; curQ is q, curChoices is choices
HasQ == data.present /\ i < Len(data.questions)
curQ == data.questions[i + 1]
curChoices == IF HasQ THEN getChoices(curQ) ELSE NoChoices
qid == curQ.id

\* the quiz is rendered (not "Loading quiz...", not the error, not "No questions.")
Visible == ~quizLoading /\ quizErr = "" /\ data.present /\ Len(data.questions) > 0

\* mutant of hasAnswer: the text is not trimmed before its length is taken
hasAnswerUntrimmed ==
  IF curChoices.present THEN selectedIndex # NullIndex ELSE Len(textInput) > 0

hasAnswer ==
  IF curChoices.present THEN selectedIndex # NullIndex ELSE Len(trim(textInput)) > 0

\* mutant of restored: the effect forgets setLocked(true) for a saved answer
restoredUnlocked(question, answers) ==
  LET saved == savedOf(answers, question.id)
  IN IF saved.kind = "mc"
     THEN [selectedIndex |-> saved.index, textInput |-> << >>, locked |-> FALSE]
     ELSE IF saved.kind = "text"
     THEN [selectedIndex |-> NullIndex, textInput |-> saved.value, locked |-> FALSE]
     ELSE [selectedIndex |-> NullIndex, textInput |-> << >>, locked |-> FALSE]

\* selectedIndex, textInput and locked of a question, from its saved answer
restored(question, answers) ==
  LET saved == savedOf(answers, question.id)
  IN IF saved.kind = "mc"
     THEN [selectedIndex |-> saved.index, textInput |-> << >>, locked |-> TRUE]
     ELSE IF saved.kind = "text"
     THEN [selectedIndex |-> NullIndex, textInput |-> saved.value, locked |-> TRUE]
     ELSE [selectedIndex |-> NullIndex, textInput |-> << >>, locked |-> FALSE]

\* the effect on [q]: runs after a commit in which q is a new defined question
RestoreEffect(question, answers) ==
  /\ selectedIndex' = restored(question, answers).selectedIndex
  /\ textInput' = restored(question, answers).textInput
  /\ locked' = restored(question, answers).locked

\* mutant of SetI: the index moves and no restore effect follows
SetIWithoutRestore(next) ==
  /\ i' = next
  /\ UNCHANGED << selectedIndex, textInput, locked >>
  /\ UNCHANGED << dataset_id, data, quizLoading, quizErr, score, answerMap, fetches, issued >>

\* setI(next) and the restore effect that follows when the question changes
SetI(next) ==
  /\ i' = next
  /\ IF next # i
     THEN RestoreEffect(data.questions[next + 1], answerMap)
     ELSE UNCHANGED << selectedIndex, textInput, locked >>
  /\ UNCHANGED << dataset_id, data, quizLoading, quizErr, score, answerMap, fetches, issued >>

\* the fetch effect on [dataset_id, limit, seed]: its closure keeps the
\* answerMap of the render it was created in
StartFetch(ds) ==
  /\ quizLoading' = TRUE
  /\ quizErr' = ""
  /\ issued' = issued + 1
  /\ fetches' = fetches \cup { [n |-> issued + 1, dataset |-> ds, answers |-> answerMap] }

QuizInit ==
  /\ dataset_id \in QuizDatasets
  /\ data = NoData
  /\ quizLoading = TRUE
  /\ quizErr = ""
  /\ i = 0
  /\ locked = FALSE
  /\ score = 0
  /\ answerMap = EmptyAnswers
  /\ selectedIndex = NullIndex
  /\ textInput = << >>
  /\ issued = 1
  /\ fetches = { [n |-> 1, dataset |-> dataset_id, answers |-> EmptyAnswers] }

QuizIdle ==
  /\ dataset_id = 3
  /\ data = SomeData(<< >>)
  /\ quizLoading = FALSE
  /\ quizErr = ""
  /\ i = 0
  /\ locked = FALSE
  /\ score = 0
  /\ answerMap = EmptyAnswers
  /\ selectedIndex = NullIndex
  /\ textInput = << >>
  /\ issued = MaxFetches
  /\ fetches = {}

\* the parent re-renders QuizPlay with another dataset_id
PropsChange(ds) ==
  /\ ds # dataset_id
  /\ issued < MaxFetches
  /\ dataset_id' = ds
  /\ StartFetch(ds)
  /\ UNCHANGED << data, i, locked, score, answerMap, selectedIndex, textInput >>
  /\ UNCHANGED outsideQuiz

\* getQuestions of fetch f resolves: the rest of run(), then the restore effect
FetchResolve(f) ==
  /\ f \in fetches
  /\ LET res == [questions |-> QuizServer(f.dataset)]
     IN /\ data' = SomeData(res.questions)
        /\ i' = 0
        /\ IF Len(res.questions) > 0 /\ isQuizItem(res.questions[1])
           THEN /\ score' = computeScore(f.answers, res.questions)
                \* the values set from the closure's answerMap are overwritten
                \* by the restore effect, which runs for the new q
                /\ RestoreEffect(res.questions[1], answerMap)
           ELSE /\ selectedIndex' = NullIndex
                /\ textInput' = << >>
                /\ locked' = FALSE
                /\ score' = 0
  /\ quizLoading' = FALSE
  /\ fetches' = fetches \ { f }
  /\ UNCHANGED << dataset_id, quizErr, answerMap, issued >>
  /\ UNCHANGED outsideQuiz

\* getQuestions of fetch f rejects
FetchReject(f) ==
  /\ f \in fetches
  /\ quizErr' = "Questions failed"
  /\ quizLoading' = FALSE
  /\ fetches' = fetches \ { f }
  /\ UNCHANGED << dataset_id, data, i, locked, score, answerMap, selectedIndex, textInput, issued >>
  /\ UNCHANGED outsideQuiz

\* mutant of onSubmit: the new map is built from {} and not from {...prev}
onSubmitFreshMap ==
  /\ HasQ /\ isQuizItem(curQ)
  /\ ~locked
  /\ IF curChoices.present
     THEN /\ selectedIndex # NullIndex
          /\ answerMap' = (qid :> McSaved(selectedIndex))
     ELSE answerMap' = (qid :> TextSaved(textInput))
  /\ score' = computeScore(answerMap', data.questions)
  /\ locked' = TRUE
  /\ UNCHANGED << dataset_id, data, quizLoading, quizErr, i, selectedIndex, textInput,
                  fetches, issued >>

\* onSubmit
onSubmit ==
  /\ HasQ /\ isQuizItem(curQ)
  /\ ~locked
  /\ IF curChoices.present
     THEN /\ selectedIndex # NullIndex
          /\ answerMap' = (qid :> McSaved(selectedIndex)) @@ answerMap
     ELSE answerMap' = (qid :> TextSaved(textInput)) @@ answerMap
  /\ score' = computeScore(answerMap', data.questions)
  /\ locked' = TRUE
  /\ UNCHANGED << dataset_id, data, quizLoading, quizErr, i, selectedIndex, textInput,
                  fetches, issued >>

\* click on the Submit button
SubmitClick ==
  /\ Visible
  /\ ~(locked \/ (IF curChoices.present THEN selectedIndex = NullIndex
                                      ELSE Len(trim(textInput)) = 0))
  /\ onSubmit
  /\ UNCHANGED outsideQuiz

\* keydown Enter (the listener is on window, rendered or not)
KeyEnter ==
  /\ HasQ /\ isQuizItem(curQ)
  /\ ~locked /\ hasAnswer
  /\ onSubmit
  /\ UNCHANGED outsideQuiz

\* keydown ArrowLeft outside an input
KeyArrowLeft ==
  /\ HasQ /\ isQuizItem(curQ)
  /\ i > 0
  /\ SetI(i - 1)
  /\ UNCHANGED outsideQuiz

\* keydown ArrowRight outside an input
KeyArrowRight ==
  /\ HasQ /\ isQuizItem(curQ)
  /\ i < Len(data.questions) - 1
  /\ SetI(i + 1)
  /\ UNCHANGED outsideQuiz

\* keydown of digit n outside an input
KeyDigit(n) ==
  /\ HasQ /\ isQuizItem(curQ)
  /\ curChoices.present /\ ~locked
  /\ n >= 1 /\ n <= (IF 9 < Len(curChoices.list) THEN 9 ELSE Len(curChoices.list))
  /\ selectedIndex' = n - 1
  /\ UNCHANGED << dataset_id, data, quizLoading, quizErr, i, locked, score, answerMap,
                  textInput, fetches, issued >>
  /\ UNCHANGED outsideQuiz

\* go(delta) of the Prev (delta = -1) and Next (delta = +1) buttons
go(delta) ==
  LET low == IF i + delta < 0 THEN 0 ELSE i + delta
  IN SetI(IF total - 1 < low THEN total - 1 ELSE low)

PrevClick ==
  /\ Visible
  /\ i # 0
  /\ go(0 - 1)
  /\ UNCHANGED outsideQuiz

NextClick ==
  /\ Visible
  /\ i # total - 1
  /\ go(1)
  /\ UNCHANGED outsideQuiz

\* change event of the radio button of choice idx
SelectChoice(idx) ==
  /\ Visible
  /\ curChoices.present /\ ~locked
  /\ idx \in 0..(Len(curChoices.list) - 1)
  /\ selectedIndex' = idx
  /\ UNCHANGED << dataset_id, data, quizLoading, quizErr, i, locked, score, answerMap,
                  textInput, fetches, issued >>
  /\ UNCHANGED outsideQuiz

\* change event of the text box
TypeText(t) ==
  /\ Visible
  /\ ~curChoices.present /\ ~locked
  /\ textInput' = t
  /\ UNCHANGED << dataset_id, data, quizLoading, quizErr, i, locked, score, answerMap,
                  selectedIndex, fetches, issued >>
  /\ UNCHANGED outsideQuiz

(***************************************************************************)
(* Dataset profiler behind a cache keyed by dataset identity               *)
(***************************************************************************)
\* a cell of a column: a null marker or a value
NullCell == [null |-> TRUE, v |-> 0]
Cell(v) == [null |-> FALSE, v |-> v]

\* dataset identities (content fingerprints) and the column each one names
CacheKeys == { 1, 2 }
DatasetContent(k) ==
  CASE k = 1 -> << Cell(25), Cell(30), NullCell, Cell(40) >>
    [] k = 2 -> << Cell(1), Cell(2), Cell(1), Cell(3) >>

RECURSIVE nullCountFrom(_, _)
nullCountFrom(values, k) ==
  IF k > Len(values) THEN 0
  ELSE (IF values[k].null THEN 1 ELSE 0) + nullCountFrom(values, k + 1)

\* the distinct non-null values seen in the first k cells
RECURSIVE distinctUpTo(_, _)
distinctUpTo(values, k) ==
  IF k = 0 THEN { }
  ELSE IF values[k].null THEN distinctUpTo(values, k - 1)
  ELSE distinctUpTo(values, k - 1) \cup { values[k].v }

\* profile_column: null_count and unique_count of one column
profile_column(values) ==
  [null_count |-> nullCountFrom(values, 1),
   unique_count |-> Cardinality(distinctUpTo(values, Len(values)))]

\* mutant of profileDataset: the profile carries the time it was computed
profileDatasetStamped(content) ==
  [n_rows |-> Len(content), n_cols |-> 1 + pcClock,
   columns |-> << profile_column(content) >>]

\* profile(dataset): the statistics builder run once per column
profileDataset(content) ==
  [n_rows |-> Len(content), n_cols |-> 1,
   columns |-> << profile_column(content) >>]

NoEntry == [present |-> FALSE]
Entry(value) == [present |-> TRUE, value |-> value]

CacheInit ==
  /\ pcCache = [k \in CacheKeys |-> NoEntry]
  /\ pcKey \in [1..MaxRequests -> CacheKeys]
  /\ pcPhase = [r \in 1..MaxRequests |-> "new"]
  /\ pcLocal = [r \in 1..MaxRequests |-> NoEntry]
  /\ pcResult = [r \in 1..MaxRequests |-> Pending]
  /\ pcClock = 0

CacheIdle ==
  /\ pcCache = [k \in CacheKeys |-> NoEntry]
  /\ pcKey = [r \in 1..MaxRequests |-> 1]
  /\ pcPhase = [r \in 1..MaxRequests |-> "done"]
  /\ pcLocal = [r \in 1..MaxRequests |-> NoEntry]
  /\ pcResult = [r \in 1..MaxRequests |-> Pending]
  /\ pcClock = 0

\* request r finds the profile of its dataset in the cache
CacheHit(r) ==
  /\ pcPhase[r] = "new"
  /\ pcCache[pcKey[r]].present
  /\ pcResult' = [pcResult EXCEPT ![r] = Returned(pcCache[pcKey[r]].value)]
  /\ pcPhase' = [pcPhase EXCEPT ![r] = "done"]
  /\ UNCHANGED << pcCache, pcKey, pcLocal, pcClock >>
  /\ UNCHANGED outsideCache

\* request r finds no entry and starts to profile
CacheMiss(r) ==
  /\ pcPhase[r] = "new"
  /\ ~pcCache[pcKey[r]].present
  /\ pcPhase' = [pcPhase EXCEPT ![r] = "computing"]
  /\ UNCHANGED << pcCache, pcKey, pcLocal, pcResult, pcClock >>
  /\ UNCHANGED outsideCache

\* request r finishes profiling; time has passed
ComputeProfile(r) ==
  /\ pcPhase[r] = "computing"
  /\ pcLocal' = [pcLocal EXCEPT ![r] = Entry(profileDataset(DatasetContent(pcKey[r])))]
  /\ pcPhase' = [pcPhase EXCEPT ![r] = "computed"]
  /\ pcClock' = pcClock + 1
  /\ UNCHANGED << pcCache, pcKey, pcResult >>
  /\ UNCHANGED outsideCache

\* request r writes what it computed, whatever the cache holds by now
\* (last writer wins), and answers it
CacheWrite(r) ==
  /\ pcPhase[r] = "computed"
  /\ pcCache' = [pcCache EXCEPT ![pcKey[r]] = pcLocal[r]]
  /\ pcResult' = [pcResult EXCEPT ![r] = Returned(pcLocal[r].value)]
  /\ pcPhase' = [pcPhase EXCEPT ![r] = "done"]
  /\ UNCHANGED << pcKey, pcLocal, pcClock >>
  /\ UNCHANGED outsideCache

(***************************************************************************)
(* DatasetViewport                                                         *)
(***************************************************************************)
ROW_HEIGHT_PX == 24
COL_WIDTH_PX == 140

\* clampInt on integers (Math.trunc is the identity on them)
clampInt(n, lo, hi) ==
  LET low == IF n > lo THEN n ELSE lo
  IN IF hi < low THEN hi ELSE low

\* Math.round(n / d) for d > 0: the nearest integer, halves towards +infinity
roundDiv(n, d) == (2 * n + d) \div (2 * d)

\* chunk: MultiChunkResponse | null; req is the call the response answers
NoChunk == [present |-> FALSE]
SomeChunk(req, ds, total_rows, total_cols, row_start, col_start) ==
  [present |-> TRUE, req |-> req, dataset_id |-> ds,
   total_rows |-> total_rows, total_cols |-> total_cols,
   row_start |-> row_start, col_start |-> col_start]

\* startRef, pendingRef: { row, col } | null
NoCell == [present |-> FALSE]
SomeCell(row, col) == [present |-> TRUE, row |-> row, col |-> col]

\* timerRef.current: null or the handle of the timer that is set
NoTimer == 0
TimerHandle == 1

\* dims of given props
dimsOf(vr, vc) == [rows |-> clampInt(vr, 1, 100), cols |-> clampInt(vc, 1, 100)]
dims == dimsOf(viewRows, viewCols)

totalRowsOf(ch) == IF ch.present THEN ch.total_rows ELSE 0
totalColsOf(ch) == IF ch.present THEN ch.total_cols ELSE 0
maxRowStartOf(ch, d) == IF totalRowsOf(ch) - d.rows > 0 THEN totalRowsOf(ch) - d.rows ELSE 0
maxColStartOf(ch, d) == IF totalColsOf(ch) - d.cols > 0 THEN totalColsOf(ch) - d.cols ELSE 0
totalRows == totalRowsOf(chunk)
totalCols == totalColsOf(chunk)
maxRowStart == maxRowStartOf(chunk, dims)
maxColStart == maxColStartOf(chunk, dims)

\* the datasets the server holds and their sizes
ViewDatasets == { 1, 2 }
ServerRows(ds) == IF ds = 1 THEN 3 ELSE 1
ServerCols(ds) == IF ds = 1 THEN 2 ELSE 1

\* what GET /multifile/chunk may answer to call f: the totals of the dataset
\* and the start it served, which it clamps to the last full window or to the
\* last row and column
ChunkResponses(f) ==
  LET tr == ServerRows(f.dataset_id)
      tc == ServerCols(f.dataset_id)
  IN { SomeChunk(f.id, f.dataset_id, tr, tc, clampInt(f.row_start, 0, rmax), clampInt(f.col_start, 0, cmax)) :
         rmax \in { tr - 1, maxRowStartOf(SomeChunk(0, 0, tr, tc, 0, 0), [rows |-> f.n_rows, cols |-> f.n_cols]) },
         cmax \in { maxColStartOf(SomeChunk(0, 0, tr, tc, 0, 0), [rows |-> f.n_rows, cols |-> f.n_cols]) } }

\* a getMultiChunk call in flight: its myReqId, its arguments (the values the
\* effect closed over) and whether its AbortController was aborted
ChunkCall(id, ds, row, col, d, aborted) ==
  [id |-> id, dataset_id |-> ds, row_start |-> row, col_start |-> col,
   n_rows |-> d.rows, n_cols |-> d.cols, aborted |-> aborted]

abortAll(calls) == { [f EXCEPT !.aborted = TRUE] : f \in calls }

\* the viewRows the parent passes, and where the pointer can be, in pixels
\* from the start of the drag
ViewSizes == { 1, 2 }
PointerDx == { 0 - 140, 70 }
PointerDy == { 0 - 48, 0 - 12, 12 }

\* mutant of isStale: no check of reqIdRef
isStaleNever(myReqId) == FALSE

\* reqIdRef.current !== myReqId
isStale(myReqId) == reqIdRef # myReqId

ViewInit ==
  /\ dvDataset \in ViewDatasets
  /\ viewRows \in ViewSizes /\ viewCols = 1
  /\ rowStart = 0 /\ colStart = 0
  /\ dvLoading = TRUE /\ dvErr = ""
  /\ chunk = NoChunk
  /\ reqIdRef = 1
  /\ draggingRef = FALSE /\ startRef = NoCell /\ pendingRef = NoCell
  /\ timerRef = NoTimer /\ dvTimers = 0
  /\ dvInflight = { ChunkCall(1, dvDataset, 0, 0, dims, FALSE) }
  /\ dvTarget = NoCell /\ dvAnswered = 0 /\ dvStale = 0

ViewIdle ==
  /\ dvDataset = 1 /\ viewRows = 1 /\ viewCols = 1
  /\ rowStart = 0 /\ colStart = 0
  /\ dvLoading = FALSE /\ dvErr = ""
  /\ chunk = NoChunk
  /\ reqIdRef = MaxReqId
  /\ draggingRef = FALSE /\ startRef = NoCell /\ pendingRef = NoCell
  /\ timerRef = NoTimer /\ dvTimers = 0
  /\ dvInflight = { }
  /\ dvTarget = NoCell /\ dvAnswered = 0 /\ dvStale = 0

\* One commit of the component and the effects that follow it. The handler
\* left the props ds1, vr1, vc1 and the state r1, c1, ch1, loading1, err1,
\* with the calls calls1 in flight. The re-clamp effect runs when dims or the
\* totals changed and may set the starts again; the fetch effect runs when
\* dataset_id, rowStart, colStart or dims changed, and once more after the
\* re-clamp effect moved a start. Each run of the fetch effect aborts the
\* call before it and issues the next one.
Commit(ds1, vr1, vc1, r1, c1, ch1, loading1, err1, calls1) ==
  LET d1 == dimsOf(vr1, vc1)
      reclamp == << d1, totalRowsOf(ch1), totalColsOf(ch1) >> # << dims, totalRows, totalCols >>
      r2 == IF reclamp /\ ch1.present /\ r1 > maxRowStartOf(ch1, d1)
            THEN maxRowStartOf(ch1, d1) ELSE r1
      c2 == IF reclamp /\ ch1.present /\ c1 > maxColStartOf(ch1, d1)
            THEN maxColStartOf(ch1, d1) ELSE c1
      first == << ds1, r1, c1, d1 >> # << dvDataset, rowStart, colStart, dims >>
      second == << r2, c2 >> # << r1, c1 >>
      id1 == reqIdRef + 1
      id2 == IF first THEN reqIdRef + 2 ELSE reqIdRef + 1
      issued1 == IF first THEN { ChunkCall(id1, ds1, r1, c1, d1, second) } ELSE { }
      issued2 == IF second THEN { ChunkCall(id2, ds1, r2, c2, d1, FALSE) } ELSE { }
      runs == Cardinality(issued1) + Cardinality(issued2)
  IN /\ reqIdRef + runs <= MaxReqId
     /\ dvDataset' = ds1 /\ viewRows' = vr1 /\ viewCols' = vc1
     /\ rowStart' = r2 /\ colStart' = c2
     /\ chunk' = ch1
     /\ reqIdRef' = reqIdRef + runs
     /\ dvInflight' = IF runs = 0 THEN calls1
                      ELSE abortAll(calls1) \cup issued1 \cup issued2
     /\ dvLoading' = IF runs = 0 THEN loading1 ELSE TRUE
     /\ dvErr' = IF runs = 0 THEN err1 ELSE ""

\* the parent renders the viewport with other props
ViewPropsChange(ds, vr, vc) ==
  /\ << ds, vr, vc >> # << dvDataset, viewRows, viewCols >>
  /\ Commit(ds, vr, vc, rowStart, colStart, chunk, dvLoading, dvErr, dvInflight)
  /\ UNCHANGED << draggingRef, startRef, pendingRef, timerRef, dvTimers, dvTarget, dvAnswered, dvStale >>
  /\ UNCHANGED outsideView

\* getMultiChunk of call f answers res. An aborted call can still answer:
\* the stale check does not rely on the abort having taken effect.
ChunkResolve(f, res) ==
  /\ f \in dvInflight
  /\ res \in ChunkResponses(f)
  /\ IF isStale(f.id)
     THEN /\ dvInflight' = dvInflight \ { f }
          /\ UNCHANGED << dvDataset, viewRows, viewCols, rowStart, colStart, dvLoading, dvErr,
                          chunk, reqIdRef >>
     ELSE Commit(dvDataset, viewRows, viewCols,
                 IF res.row_start # f.row_start THEN res.row_start ELSE rowStart,
                 IF res.col_start # f.col_start THEN res.col_start ELSE colStart,
                 res, FALSE, dvErr, dvInflight \ { f })
  /\ dvAnswered' = IF f.aborted THEN dvAnswered ELSE f.id
  /\ dvStale' = IF f.id # reqIdRef THEN f.id ELSE dvStale
  /\ UNCHANGED << draggingRef, startRef, pendingRef, timerRef, dvTimers, dvTarget >>
  /\ UNCHANGED outsideView

\* getMultiChunk of call f throws an Error that is not an AbortError (also
\* an aborted call does, when the abort interrupts reading an error body)
ChunkReject(f) ==
  /\ f \in dvInflight
  /\ dvInflight' = dvInflight \ { f }
  /\ IF isStale(f.id)
     THEN UNCHANGED << dvLoading, dvErr >>
     ELSE dvLoading' = FALSE /\ dvErr' = "Failed to load chunk"
  /\ UNCHANGED << dvDataset, viewRows, viewCols, rowStart, colStart, chunk, reqIdRef >>
  /\ dvStale' = IF f.id # reqIdRef THEN f.id ELSE dvStale
  /\ UNCHANGED << draggingRef, startRef, pendingRef, timerRef, dvTimers, dvTarget, dvAnswered >>
  /\ UNCHANGED outsideView

\* the fetch of an aborted call f rejects with an AbortError
ChunkAbortError(f) ==
  /\ f \in dvInflight /\ f.aborted
  /\ dvInflight' = dvInflight \ { f }
  /\ IF isStale(f.id) THEN UNCHANGED dvLoading ELSE dvLoading' = FALSE
  /\ UNCHANGED << dvDataset, viewRows, viewCols, rowStart, colStart, dvErr, chunk, reqIdRef >>
  /\ dvStale' = IF f.id # reqIdRef THEN f.id ELSE dvStale
  /\ UNCHANGED << draggingRef, startRef, pendingRef, timerRef, dvTimers, dvTarget, dvAnswered >>
  /\ UNCHANGED outsideView

\* onPointerDownCapture with the primary button
PointerDown ==
  /\ draggingRef' = TRUE
  /\ startRef' = SomeCell(rowStart, colStart)
  /\ UNCHANGED << dvDataset, viewRows, viewCols, rowStart, colStart, dvLoading, dvErr, chunk,
                  reqIdRef, pendingRef, timerRef, dvInflight, dvTimers, dvTarget, dvAnswered,
                  dvStale >>
  /\ UNCHANGED outsideView

\* mutant of schedulePanUpdate: returns before it stores the target when a
\* timer is set
schedulePanUpdateKeepsFirst(nextRow, nextCol) ==
  IF timerRef # NoTimer
  THEN UNCHANGED << pendingRef, timerRef, dvTimers >>
  ELSE /\ pendingRef' = SomeCell(clampInt(nextRow, 0, maxRowStart), clampInt(nextCol, 0, maxColStart))
       /\ timerRef' = TimerHandle /\ dvTimers' = dvTimers + 1

\* schedulePanUpdate, up to setTimeout
schedulePanUpdate(nextRow, nextCol) ==
  /\ pendingRef' = SomeCell(clampInt(nextRow, 0, maxRowStart), clampInt(nextCol, 0, maxColStart))
  /\ IF timerRef # NoTimer
     THEN UNCHANGED << timerRef, dvTimers >>
     ELSE timerRef' = TimerHandle /\ dvTimers' = dvTimers + 1

\* onPointerMove, the pointer dx, dy pixels from where the drag started
PointerMove(dx, dy) ==
  /\ draggingRef /\ startRef.present
  /\ LET dCols == roundDiv(dx, COL_WIDTH_PX)
         dRows == roundDiv(dy, ROW_HEIGHT_PX)
     IN /\ schedulePanUpdate(startRef.row - dRows, startRef.col - dCols)
        /\ dvTarget' = SomeCell(clampInt(startRef.row - dRows, 0, maxRowStart),
                                clampInt(startRef.col - dCols, 0, maxColStart))
  /\ UNCHANGED << dvDataset, viewRows, viewCols, rowStart, colStart, dvLoading, dvErr, chunk,
                  reqIdRef, draggingRef, startRef, dvInflight, dvAnswered, dvStale >>
  /\ UNCHANGED outsideView

\* the callback of the throttle timer
TimerFires ==
  /\ dvTimers > 0
  /\ dvTimers' = dvTimers - 1
  /\ timerRef' = NoTimer
  /\ pendingRef' = NoCell
  /\ dvTarget' = NoCell
  /\ IF pendingRef.present
     THEN Commit(dvDataset, viewRows, viewCols, pendingRef.row, pendingRef.col,
                 chunk, dvLoading, dvErr, dvInflight)
     ELSE UNCHANGED << dvDataset, viewRows, viewCols, rowStart, colStart, dvLoading, dvErr,
                       chunk, reqIdRef, dvInflight >>
  /\ UNCHANGED << draggingRef, startRef, dvAnswered, dvStale >>
  /\ UNCHANGED outsideView

\* flushPanUpdate: what it does to the timer and to the pending target
flushPanUpdate ==
  /\ IF timerRef # NoTimer
     THEN timerRef' = NoTimer /\ dvTimers' = dvTimers - 1
     ELSE UNCHANGED << timerRef, dvTimers >>
  /\ pendingRef' = NoCell
  /\ IF pendingRef.present
     THEN Commit(dvDataset, viewRows, viewCols, pendingRef.row, pendingRef.col,
                 chunk, dvLoading, dvErr, dvInflight)
     ELSE UNCHANGED << dvDataset, viewRows, viewCols, rowStart, colStart, dvLoading, dvErr,
                       chunk, reqIdRef, dvInflight >>

\* stopDrag, on pointerup and pointercancel
StopDrag ==
  /\ draggingRef' = FALSE
  /\ startRef' = NoCell
  /\ flushPanUpdate
  /\ dvTarget' = NoCell
  /\ UNCHANGED << dvAnswered, dvStale >>
  /\ UNCHANGED outsideView

(***************************************************************************)
(* App                                                                     *)
(***************************************************************************)
\* info: UploadInfo | null
NoInfo == [present |-> FALSE]
SomeInfo(ds) == [present |-> TRUE, dataset_id |-> ds]

\* the datasets a file or a past entry can name
AppDatasets == { 1, 2 }
Tabs == { "upload", "profile", "questions", "quiz" }

\* a call in flight: "list" and "upload" are the two awaits of onChange,
\* "past" is the listDatasets of goToPastFiles, "load" the getDataset of
\* loadPastDataset
AppCall(n, kind, ds) == [n |-> n, kind |-> kind, dataset_id |-> ds]

AppInit ==
  /\ info = NoInfo /\ appErr = ""
  /\ tab = "upload" /\ page = "home"
  /\ loadingPast = FALSE
  /\ appCalls = { } /\ appIssued = 0

AppIdle ==
  /\ info = NoInfo /\ appErr = ""
  /\ tab = "upload" /\ page = "home"
  /\ loadingPast = FALSE
  /\ appCalls = { } /\ appIssued = MaxAppCalls

\* the Choose File and Past Files buttons of UploadTab are rendered
UploadButtonsShown == page = "home" /\ tab = "upload" /\ ~info.present

\* onChange, up to its first await: the user picked a file that holds
\* dataset ds
ChooseFile(ds) ==
  /\ UploadButtonsShown
  /\ appIssued < MaxAppCalls
  /\ appErr' = ""
  /\ appIssued' = appIssued + 1
  /\ appCalls' = appCalls \cup { AppCall(appIssued + 1, "list", ds) }
  /\ UNCHANGED << info, tab, page, loadingPast >>
  /\ UNCHANGED outsideApp

\* listDatasets of onChange settles, either way, and uploadDataset starts
SnapshotSettles(c) ==
  /\ c \in appCalls /\ c.kind = "list"
  /\ appCalls' = (appCalls \ { c }) \cup { AppCall(c.n, "upload", c.dataset_id) }
  /\ UNCHANGED << info, appErr, tab, page, loadingPast, appIssued >>
  /\ UNCHANGED outsideApp

\* uploadDataset answers
UploadResolve(c) ==
  /\ c \in appCalls /\ c.kind = "upload"
  /\ info' = SomeInfo(c.dataset_id)
  /\ appCalls' = appCalls \ { c }
  /\ UNCHANGED << appErr, tab, page, loadingPast, appIssued >>
  /\ UNCHANGED outsideApp

\* uploadDataset throws
UploadReject(c) ==
  /\ c \in appCalls /\ c.kind = "upload"
  /\ appErr' = "upload failed"
  /\ info' = NoInfo
  /\ appCalls' = appCalls \ { c }
  /\ UNCHANGED << tab, page, loadingPast, appIssued >>
  /\ UNCHANGED outsideApp

\* clearDataset, the Clear File button
ClearDataset ==
  /\ page = "home" /\ info.present
  /\ info' = NoInfo /\ appErr' = ""
  /\ tab' = "upload" /\ page' = "home"
  /\ UNCHANGED << loadingPast, appCalls, appIssued >>
  /\ UNCHANGED outsideApp

\* a click on one of the four tab buttons
SetTab(t) ==
  /\ page = "home" /\ info.present
  /\ tab' = t
  /\ UNCHANGED << info, appErr, page, loadingPast, appCalls, appIssued >>
  /\ UNCHANGED outsideApp

\* goToPastFiles, up to its await
StartPastList ==
  /\ appIssued < MaxAppCalls
  /\ loadingPast' = TRUE
  /\ appErr' = ""
  /\ appIssued' = appIssued + 1

\* the Past Files button
GoToPastFiles ==
  /\ UploadButtonsShown /\ ~loadingPast
  /\ StartPastList
  /\ appCalls' = appCalls \cup { AppCall(appIssued + 1, "past", 0) }
  /\ UNCHANGED << info, tab, page >>
  /\ UNCHANGED outsideApp

\* listDatasets of goToPastFiles answers; when the page changes to
\* past-files the effect on [page, goToPastFiles] calls goToPastFiles again
PastListResolve(c) ==
  /\ c \in appCalls /\ c.kind = "past"
  /\ page' = "past-files"
  /\ IF page # "past-files"
     THEN /\ StartPastList
          /\ appCalls' = (appCalls \ { c }) \cup { AppCall(appIssued + 1, "past", 0) }
     ELSE /\ loadingPast' = FALSE
          /\ appCalls' = appCalls \ { c }
          /\ UNCHANGED << appErr, appIssued >>
  /\ UNCHANGED << info, tab >>
  /\ UNCHANGED outsideApp

\* listDatasets of goToPastFiles throws
PastListReject(c) ==
  /\ c \in appCalls /\ c.kind = "past"
  /\ appErr' = "Failed to load past files"
  /\ loadingPast' = FALSE
  /\ appCalls' = appCalls \ { c }
  /\ UNCHANGED << info, tab, page, appIssued >>
  /\ UNCHANGED outsideApp

\* loadPastDataset(ds), up to its await: a click in the past files page
LoadPastDataset(ds) ==
  /\ page = "past-files"
  /\ appIssued < MaxAppCalls
  /\ appErr' = ""
  /\ appIssued' = appIssued + 1
  /\ appCalls' = appCalls \cup { AppCall(appIssued + 1, "load", ds) }
  /\ UNCHANGED << info, tab, page, loadingPast >>
  /\ UNCHANGED outsideApp

\* getDataset answers
LoadResolve(c) ==
  /\ c \in appCalls /\ c.kind = "load"
  /\ info' = SomeInfo(c.dataset_id)
  /\ page' = "home" /\ tab' = "upload"
  /\ appCalls' = appCalls \ { c }
  /\ UNCHANGED << appErr, loadingPast, appIssued >>
  /\ UNCHANGED outsideApp

\* getDataset throws
LoadReject(c) ==
  /\ c \in appCalls /\ c.kind = "load"
  /\ appErr' = "Failed to load dataset"
  /\ appCalls' = appCalls \ { c }
  /\ UNCHANGED << info, tab, page, loadingPast, appIssued >>
  /\ UNCHANGED outsideApp

\* goBackHome, the Back button of the past files page
GoBackHome ==
  /\ page = "past-files"
  /\ page' = "home" /\ appErr' = ""
  /\ UNCHANGED << info, tab, loadingPast, appCalls, appIssued >>
  /\ UNCHANGED outsideApp

(***************************************************************************)
(* SqlEditorPanel                                                          *)
(***************************************************************************)
\* the dataset_id prop: null or the id of a dataset
NullDatasetId == 0
SqlDatasets == { 1, 2 }

\* the preview rows getDataset answers for a dataset (one column)
PreviewRows(ds) == IF ds = 1 THEN << 25, 30, 40 >> ELSE << 7 >>

\* dbRef.current: null or a database whose table data holds rows
NoDb == [present |-> FALSE]
Db(rows) == [present |-> TRUE, rows |-> rows]

\* a run of load(): its dataset_id, where it is awaiting ("dataset" for
\* getDataset, "runtime" for ensureSqlJs) and its cancelled flag
SqlLoad(n, ds, phase, cancelled) ==
  [n |-> n, dataset_id |-> ds, phase |-> phase, cancelled |-> cancelled]

cancelAll(loads) == { [l EXCEPT !.cancelled = TRUE] : l \in loads }

\* the effect on [dataset_id] for the prop ds, up to the await of getDataset
StartLoad(ds) ==
  IF ds = NullDatasetId
  THEN /\ sqlLoads' = cancelAll(sqlLoads)
       /\ UNCHANGED << sqlInfo, sqlLoading, sqlReady, sqlErr, sqlIssued >>
  ELSE /\ sqlIssued < MaxSqlLoads
       /\ sqlIssued' = sqlIssued + 1
       /\ sqlLoads' = cancelAll(sqlLoads) \cup { SqlLoad(sqlIssued + 1, ds, "dataset", FALSE) }
       /\ sqlLoading' = TRUE
       /\ sqlErr' = ""
       /\ sqlInfo' = NullDatasetId
       /\ sqlReady' = FALSE

SqlInit ==
  /\ sqlDatasetId \in SqlDatasets
  /\ sqlInfo = NullDatasetId
  /\ sqlLoading = TRUE /\ sqlReady = FALSE /\ sqlErr = ""
  /\ dbRef = NoDb
  /\ sqlJsLoader = "null"
  /\ sqlLoads = { SqlLoad(1, sqlDatasetId, "dataset", FALSE) }
  /\ sqlIssued = 1
  /\ sqlRan = NoDb

SqlIdle ==
  /\ sqlDatasetId = NullDatasetId
  /\ sqlInfo = NullDatasetId
  /\ sqlLoading = FALSE /\ sqlReady = FALSE /\ sqlErr = ""
  /\ dbRef = NoDb
  /\ sqlJsLoader = "null"
  /\ sqlLoads = { }
  /\ sqlIssued = MaxSqlLoads
  /\ sqlRan = NoDb

\* the parent renders the panel with another dataset_id: the cleanup of the
\* effect sets cancelled, closes and forgets the database, then the effect
\* runs again
SqlPropsChange(ds) ==
  /\ ds # sqlDatasetId
  /\ sqlDatasetId' = ds
  /\ dbRef' = NoDb
  /\ StartLoad(ds)
  /\ UNCHANGED << sqlJsLoader, sqlRan >>
  /\ UNCHANGED outsideSql

\* load() from new SQL.Database() to the finally, for a run l whose
\* ensureSqlJs answered
FillDatabase(l) ==
  /\ dbRef' = Db(PreviewRows(l.dataset_id))
  /\ sqlReady' = TRUE
  /\ sqlLoading' = IF l.cancelled THEN sqlLoading ELSE FALSE

\* load() in its catch and finally, for a run l whose ensureSqlJs threw
RuntimeFailed(l) ==
  /\ sqlErr' = IF l.cancelled THEN sqlErr ELSE "Failed to load script"
  /\ sqlLoading' = IF l.cancelled THEN sqlLoading ELSE FALSE
  /\ UNCHANGED << dbRef, sqlReady >>

\* getDataset of run l answers; the run goes on to ensureSqlJs, which makes
\* the sqlJsLoader promise when there is none and goes straight on when the
\* promise has settled
DatasetResolve(l) ==
  /\ l \in sqlLoads /\ l.phase = "dataset"
  /\ IF l.cancelled
     THEN /\ sqlLoads' = sqlLoads \ { l }
          /\ UNCHANGED << sqlInfo, sqlLoading, sqlReady, sqlErr, dbRef, sqlJsLoader >>
     ELSE /\ sqlInfo' = l.dataset_id
          /\ CASE sqlJsLoader = "resolved" ->
                    /\ FillDatabase(l)
                    /\ sqlLoads' = sqlLoads \ { l }
                    /\ UNCHANGED << sqlErr, sqlJsLoader >>
               [] sqlJsLoader = "rejected" ->
                    /\ RuntimeFailed(l)
                    /\ sqlLoads' = sqlLoads \ { l }
                    /\ UNCHANGED sqlJsLoader
               [] OTHER ->
                    /\ sqlJsLoader' = "pending"
                    /\ sqlLoads' = (sqlLoads \ { l }) \cup { [l EXCEPT !.phase = "runtime"] }
                    /\ UNCHANGED << sqlLoading, sqlReady, sqlErr, dbRef >>
  /\ UNCHANGED << sqlDatasetId, sqlIssued, sqlRan >>
  /\ UNCHANGED outsideSql

\* getDataset of run l throws
DatasetReject(l) ==
  /\ l \in sqlLoads /\ l.phase = "dataset"
  /\ sqlLoads' = sqlLoads \ { l }
  /\ sqlErr' = IF l.cancelled THEN sqlErr ELSE "Failed to load dataset"
  /\ sqlLoading' = IF l.cancelled THEN sqlLoading ELSE FALSE
  /\ UNCHANGED << sqlDatasetId, sqlInfo, sqlReady, dbRef, sqlJsLoader, sqlIssued, sqlRan >>
  /\ UNCHANGED outsideSql

\* the runs that await the sqlJsLoader promise, and the last of them (they
\* go on in the order in which they started to await)
AwaitingRuntime == { l \in sqlLoads : l.phase = "runtime" }
LastAwaiting == CHOOSE l \in AwaitingRuntime : \A o \in AwaitingRuntime : o.n <= l.n

\* the sqlJsLoader promise resolves: every run that awaits it goes on, one
\* after the other, each filling a database of its own dataset
RuntimeResolves ==
  /\ sqlJsLoader = "pending"
  /\ sqlJsLoader' = "resolved"
  /\ dbRef' = Db(PreviewRows(LastAwaiting.dataset_id))
  /\ sqlReady' = TRUE
  /\ sqlLoading' = IF \E l \in AwaitingRuntime : ~l.cancelled THEN FALSE ELSE sqlLoading
  /\ sqlLoads' = sqlLoads \ AwaitingRuntime
  /\ UNCHANGED << sqlDatasetId, sqlInfo, sqlErr, sqlIssued, sqlRan >>
  /\ UNCHANGED outsideSql

\* the sqlJsLoader promise rejects (the script or the wasm did not load)
RuntimeRejects ==
  /\ sqlJsLoader = "pending"
  /\ sqlJsLoader' = "rejected"
  /\ sqlErr' = IF \E l \in AwaitingRuntime : ~l.cancelled THEN "Failed to load script" ELSE sqlErr
  /\ sqlLoading' = IF \E l \in AwaitingRuntime : ~l.cancelled THEN FALSE ELSE sqlLoading
  /\ sqlLoads' = sqlLoads \ AwaitingRuntime
  /\ UNCHANGED << sqlDatasetId, sqlInfo, sqlReady, dbRef, sqlIssued, sqlRan >>
  /\ UNCHANGED outsideSql

\* onRun when it reaches dbRef.current.exec(query): sqlRan is the database
\* the query ran against
OnRun ==
  /\ sqlDatasetId # NullDatasetId
  /\ sqlReady /\ dbRef.present
  /\ sqlRan' = dbRef
  /\ UNCHANGED << sqlDatasetId, sqlInfo, sqlLoading, sqlReady, sqlErr, dbRef, sqlJsLoader,
                  sqlLoads, sqlIssued >>
  /\ UNCHANGED outsideSql

(***************************************************************************)
(* MultiFileHome                                                           *)
(***************************************************************************)
\* the files the user can pick, named by the dataset their content makes
NoFile == 0
MfFiles == { 1, 2, 3 }
MAX_SLOTS == 3

\* a call in flight: the initial getMultiCurrent of the mount effect, or a
\* run of onUpload / onDeleteOne / onDeleteAll that awaits its request
\* (phase "mutation") or the getMultiCurrent of refresh() (phase "refresh")
MfCall(n, kind, arg, phase) == [n |-> n, kind |-> kind, arg |-> arg, phase |-> phase]

NoRun == [kind |-> "none", outcome |-> "none"]
RunDone(kind, outcome) == [kind |-> kind, outcome |-> outcome]

MfInit ==
  /\ mfServer \in SUBSET MfFiles
  /\ mfDatasets = { }
  /\ mfLoading = TRUE
  /\ mfErr = ""
  /\ selectedFile = NoFile
  /\ uploading = FALSE /\ mutating = FALSE
  /\ mfCalls = { MfCall(0, "initial", NoFile, "initial") }
  /\ mfIssued = 0
  /\ mfDone = NoRun

MfIdle ==
  /\ mfServer = { }
  /\ mfDatasets = { }
  /\ mfLoading = FALSE
  /\ mfErr = ""
  /\ selectedFile = NoFile
  /\ uploading = FALSE /\ mutating = FALSE
  /\ mfCalls = { }
  /\ mfIssued = MaxMfCalls
  /\ mfDone = NoRun

slotsFull == Cardinality(mfDatasets) >= MAX_SLOTS

\* the part of the disabled attribute that the upload, delete and
\* delete-all controls share (and the same with the uploading flag left out)
mutationDisabledByMutatingOnly == mutating
mutationDisabled == uploading \/ mutating

\* the mount effect's getMultiCurrent settles
InitialResolve(c) ==
  /\ c \in mfCalls /\ c.kind = "initial"
  /\ mfCalls' = mfCalls \ { c }
  /\ mfDatasets' = mfServer
  /\ mfLoading' = FALSE
  /\ UNCHANGED << mfServer, mfErr, selectedFile, uploading, mutating, mfIssued, mfDone >>
  /\ UNCHANGED outsideMf

InitialReject(c) ==
  /\ c \in mfCalls /\ c.kind = "initial"
  /\ mfCalls' = mfCalls \ { c }
  /\ mfErr' = "Something went wrong"
  /\ mfLoading' = FALSE
  /\ UNCHANGED << mfServer, mfDatasets, selectedFile, uploading, mutating, mfIssued, mfDone >>
  /\ UNCHANGED outsideMf

\* the file input's onChange
SelectFile(f) ==
  /\ ~(slotsFull \/ mutationDisabled)
  /\ f # selectedFile
  /\ selectedFile' = f
  /\ UNCHANGED << mfServer, mfDatasets, mfLoading, mfErr, uploading, mutating, mfCalls,
                  mfIssued, mfDone >>
  /\ UNCHANGED outsideMf

\* a handler up to the await of its request
StartMutation(kind, arg) ==
  /\ mfIssued < MaxMfCalls
  /\ mfIssued' = mfIssued + 1
  /\ mfErr' = ""
  /\ mfCalls' = mfCalls \cup { MfCall(mfIssued + 1, kind, arg, "mutation") }
  /\ UNCHANGED << mfServer, mfDatasets, mfLoading, selectedFile, mfDone >>
  /\ UNCHANGED outsideMf

OnUpload ==
  /\ ~(selectedFile = NoFile \/ slotsFull \/ mutationDisabled)
  /\ uploading' = TRUE
  /\ UNCHANGED mutating
  /\ StartMutation("upload", selectedFile)

OnDeleteOne(d) ==
  /\ ~mfLoading /\ d \in mfDatasets
  /\ ~mutationDisabled
  /\ mutating' = TRUE
  /\ UNCHANGED uploading
  /\ StartMutation("delete-one", d)

OnDeleteAll ==
  /\ ~(mfDatasets = { } \/ mutationDisabled)
  /\ mutating' = TRUE
  /\ UNCHANGED uploading
  /\ StartMutation("delete-all", NoFile)

\* what the server holds once it has served the request of c
served(c) ==
  CASE c.kind = "upload" -> mfServer \cup { c.arg }
    [] c.kind = "delete-one" -> mfServer \ { c.arg }
    [] OTHER -> { }

\* the finally of the handler of c
clearBusy(c) ==
  IF c.kind = "upload"
  THEN uploading' = FALSE /\ UNCHANGED mutating
  ELSE mutating' = FALSE /\ UNCHANGED uploading

\* the request of c answers: the handler goes on into refresh()
MutationResolve(c) ==
  /\ c \in mfCalls /\ c.phase = "mutation"
  /\ mfServer' = served(c)
  /\ mfErr' = ""
  /\ mfCalls' = (mfCalls \ { c }) \cup { [c EXCEPT !.phase = "refresh"] }
  /\ UNCHANGED << mfDatasets, mfLoading, selectedFile, uploading, mutating, mfIssued, mfDone >>
  /\ UNCHANGED outsideMf

\* the request of c throws: catch and finally
MutationReject(c) ==
  /\ c \in mfCalls /\ c.phase = "mutation"
  /\ mfCalls' = mfCalls \ { c }
  /\ mfErr' = "Something went wrong"
  /\ clearBusy(c)
  /\ mfDone' = RunDone(c.kind, "failed")
  /\ UNCHANGED << mfServer, mfDatasets, mfLoading, selectedFile, mfIssued >>
  /\ UNCHANGED outsideMf

\* the getMultiCurrent of refresh() answers: the rest of the try, the finally
RefreshResolve(c) ==
  /\ c \in mfCalls /\ c.phase = "refresh"
  /\ mfCalls' = mfCalls \ { c }
  /\ mfDatasets' = mfServer
  /\ selectedFile' = IF c.kind = "upload" THEN NoFile ELSE selectedFile
  /\ clearBusy(c)
  /\ mfDone' = RunDone(c.kind, "refreshed")
  /\ UNCHANGED << mfServer, mfLoading, mfErr, mfIssued >>
  /\ UNCHANGED outsideMf

\* the getMultiCurrent of refresh() throws: catch and finally
RefreshReject(c) ==
  /\ c \in mfCalls /\ c.phase = "refresh"
  /\ mfCalls' = mfCalls \ { c }
  /\ mfErr' = "Something went wrong"
  /\ clearBusy(c)
  /\ mfDone' = RunDone(c.kind, "refresh failed")
  /\ UNCHANGED << mfServer, mfDatasets, mfLoading, selectedFile, mfIssued >>
  /\ UNCHANGED outsideMf

(***************************************************************************)
(* Specifications                                                          *)
(***************************************************************************)
InitShort == ShortInit /\ ScoreIdle /\ GenIdle /\ QuizIdle /\ CacheIdle /\ ViewIdle /\ AppIdle /\ SqlIdle /\ MfIdle
NextShort == CallIsShortAnswerCorrect
SpecShort == InitShort /\ [][NextShort]_vars

InitScore == ScoreInit /\ ShortIdle /\ GenIdle /\ QuizIdle /\ CacheIdle /\ ViewIdle /\ AppIdle /\ SqlIdle /\ MfIdle
NextScore == CallComputeScore \/ CallComputeScoreAgain
SpecScore == InitScore /\ [][NextScore]_vars

InitGen == GenInit /\ ShortIdle /\ ScoreIdle /\ QuizIdle /\ CacheIdle /\ ViewIdle /\ AppIdle /\ SqlIdle /\ MfIdle
NextGen == AmbientStep \/ \E r \in 1..2 : CallGenerate(r)
SpecGen == InitGen /\ [][NextGen]_vars

InitQuiz == QuizInit /\ ShortIdle /\ ScoreIdle /\ GenIdle /\ CacheIdle /\ ViewIdle /\ AppIdle /\ SqlIdle /\ MfIdle
NextQuiz ==
  \/ \E ds \in QuizDatasets : PropsChange(ds)
  \/ \E f \in fetches : FetchResolve(f)
  \/ \E f \in fetches : FetchReject(f)
  \/ \E idx \in 0..8 : SelectChoice(idx)
  \/ \E t \in QuizTexts : TypeText(t)
  \/ PrevClick
  \/ NextClick
  \/ SubmitClick
  \/ \E n \in 1..9 : KeyDigit(n)
  \/ KeyArrowLeft
  \/ KeyArrowRight
  \/ KeyEnter
SpecQuiz == InitQuiz /\ [][NextQuiz]_vars

InitCache == CacheInit /\ ShortIdle /\ ScoreIdle /\ GenIdle /\ QuizIdle /\ ViewIdle /\ AppIdle /\ SqlIdle /\ MfIdle
NextCache ==
  \E r \in 1..MaxRequests :
    CacheHit(r) \/ CacheMiss(r) \/ ComputeProfile(r) \/ CacheWrite(r)
SpecCache == InitCache /\ [][NextCache]_vars

InitView == ViewInit /\ ShortIdle /\ ScoreIdle /\ GenIdle /\ QuizIdle /\ CacheIdle /\ AppIdle /\ SqlIdle /\ MfIdle
NextView ==
  \/ \E ds \in ViewDatasets, vr \in ViewSizes : ViewPropsChange(ds, vr, viewCols)
  \/ \E f \in dvInflight : ChunkAbortError(f)
  \/ \E f \in dvInflight : \E res \in ChunkResponses(f) : ChunkResolve(f, res)
  \/ \E f \in dvInflight : ChunkReject(f)
  \/ PointerDown
  \/ \E dx \in PointerDx, dy \in PointerDy : PointerMove(dx, dy)
  \/ TimerFires
  \/ StopDrag
SpecView == InitView /\ [][NextView]_vars

InitApp == AppInit /\ ShortIdle /\ ScoreIdle /\ GenIdle /\ QuizIdle /\ CacheIdle /\ ViewIdle /\ SqlIdle /\ MfIdle
NextApp ==
  \/ \E ds \in AppDatasets : ChooseFile(ds)
  \/ \E c \in appCalls : SnapshotSettles(c)
  \/ \E c \in appCalls : UploadResolve(c)
  \/ \E c \in appCalls : UploadReject(c)
  \/ ClearDataset
  \/ \E t \in Tabs : SetTab(t)
  \/ GoToPastFiles
  \/ \E c \in appCalls : PastListResolve(c)
  \/ \E c \in appCalls : PastListReject(c)
  \/ \E ds \in AppDatasets : LoadPastDataset(ds)
  \/ \E c \in appCalls : LoadResolve(c)
  \/ \E c \in appCalls : LoadReject(c)
  \/ GoBackHome
SpecApp == InitApp /\ [][NextApp]_vars

InitSql == SqlInit /\ ShortIdle /\ ScoreIdle /\ GenIdle /\ QuizIdle /\ CacheIdle /\ ViewIdle /\ AppIdle /\ MfIdle
NextSql ==
  \/ \E ds \in SqlDatasets \cup { NullDatasetId } : SqlPropsChange(ds)
  \/ \E l \in sqlLoads : DatasetResolve(l)
  \/ \E l \in sqlLoads : DatasetReject(l)
  \/ RuntimeResolves
  \/ RuntimeRejects
  \/ OnRun
SpecSql == InitSql /\ [][NextSql]_vars

InitMf == MfInit /\ ShortIdle /\ ScoreIdle /\ GenIdle /\ QuizIdle /\ CacheIdle /\ ViewIdle /\ AppIdle /\ SqlIdle
NextMf ==
  \/ \E c \in mfCalls : InitialResolve(c)
  \/ \E c \in mfCalls : InitialReject(c)
  \/ \E f \in MfFiles \cup { NoFile } : SelectFile(f)
  \/ OnUpload
  \/ \E d \in MfFiles : OnDeleteOne(d)
  \/ OnDeleteAll
  \/ \E c \in mfCalls : MutationReject(c)
  \/ \E c \in mfCalls : MutationResolve(c)
  \/ \E c \in mfCalls : RefreshReject(c)
  \/ \E c \in mfCalls : RefreshResolve(c)
SpecMf == InitMf /\ [][NextMf]_vars

(***************************************************************************)
(* Properties of the scorer                                                *)
(***************************************************************************)
\* the maximal runs of non-whitespace characters of s, in order
RECURSIVE WordsOf(_)
WordsOf(s) ==
  IF s = << >> THEN << >>
  ELSE IF IsSpace(Head(s)) THEN WordsOf(Tail(s))
  ELSE LET n == CHOOSE m \in 1..Len(s) :
                  /\ \A k \in 1..m : ~IsSpace(s[k])
                  /\ m = Len(s) \/ IsSpace(s[m + 1])
       IN << SubSeq(s, 1, n) >> \o WordsOf(SubSeq(s, n + 1, Len(s)))

SameLetter(c, d) ==
  c = d \/ \E k \in 1..26 : {c, d} = {UpperChars[k], LowerChars[k]}

\* a and b are the same words in the same order, letter case aside
SameText(a, b) ==
  LET wa == WordsOf(a)
      wb == WordsOf(b)
  IN /\ Len(wa) = Len(wb)
     /\ \A k \in 1..Len(wa) :
          /\ Len(wa[k]) = Len(wb[k])
          /\ \A j \in 1..Len(wa[k]) : SameLetter(wa[k][j], wb[k][j])

\* the stringified ground truth has a character that is not whitespace
TruthNonBlank(q) ==
  \E k \in 1..Len(toAnswerString(q.answer)) : ~IsSpace(toAnswerString(q.answer)[k])

\* 0-based indices of the choices string-equal to the stringified ground truth
MatchingChoices(q) ==
  { j \in 0..(Len(q.choices.list) - 1) : q.choices.list[j + 1] = toAnswerString(q.answer) }

LeastOf(S) == CHOOSE m \in S : \A n \in S : m <= n

\* the recorded answer of q is the index of its ground-truth choice
McIndexIsTruth(answers, q) ==
  /\ q.id \in DOMAIN answers
  /\ answers[q.id].kind = "mc"
  /\ MatchingChoices(q) # {}
  /\ answers[q.id].index = LeastOf(MatchingChoices(q))

\* the recorded answer of q is its exact ground truth
HoldsGroundTruth(answers, q) ==
  IF q.choices.present
  THEN McIndexIsTruth(answers, q)
  ELSE /\ q.id \in DOMAIN answers
       /\ answers[q.id].kind = "text"
       /\ answers[q.id].value = toAnswerString(q.answer)

AllHoldGroundTruth ==
  \A k \in 1..Len(scQuestions) : HoldsGroundTruth(scAnswers, scQuestions[k])

\* C5 as stated: an answer map holding the exact ground truth of every
\* question makes computeScore return the number of questions.
C5_RoundTripAnySet ==
  (scOut.status = "returned" /\ AllHoldGroundTruth)
    => scOut.value = Len(scQuestions)

\* C5 (amended): an answer map holding the exact ground truth of every
\* question makes computeScore return the number of questions, provided the
\* stringified ground truth of every short-answer question is non-blank.
C5_RoundTripNonBlank ==
  (/\ scOut.status = "returned"
   /\ AllHoldGroundTruth
   /\ \A k \in 1..Len(scQuestions) :
        ~scQuestions[k].choices.present => TruthNonBlank(scQuestions[k]))
    => scOut.value = Len(scQuestions)

C5_Witness ==
  /\ scOut = Returned(2)
  /\ Len(scQuestions) = 2
  /\ scQuestions[1].choices.present
  /\ ~scQuestions[2].choices.present
  /\ AllHoldGroundTruth

\* C6 as stated: a short answer is scored correct exactly when the submitted
\* text and the stringified ground truth are equal after trimming,
\* collapsing whitespace runs and lowercasing.
C6_CorrectIffSameText ==
  saOut.status = "returned"
    => (saOut.value <=> SameText(saText, toAnswerString(saQ.answer)))

\* C6 (amended): a short answer is scored correct exactly when the
\* stringified ground truth is non-blank and equals the submitted text after
\* trimming, collapsing whitespace runs and lowercasing; for ground truth
\* 31.67 the text "31.67" is correct and "31.6" is incorrect.
C6_CorrectIffSameNonBlankText ==
  saOut.status = "returned"
    => /\ saOut.value <=> (/\ TruthNonBlank(saQ)
                           /\ SameText(saText, toAnswerString(saQ.answer)))
       /\ (saQ.answer = NumAns(3167) /\ saText = Txt3167) => saOut.value
       /\ (saQ.answer = NumAns(3167) /\ saText = Txt316) => ~saOut.value

C6_Witness ==
  /\ saOut = Returned(TRUE)
  /\ saQ.answer = StrAns(<< "A","\t"," ","a" >>)
  /\ saText = << "a"," "," ","A" >>

\* C7: a short-answer question whose ground truth normalizes to the empty
\* string is never scored correct, whatever text is submitted.
C7_BlankTruthNeverCorrect ==
  (saOut.status = "returned" /\ ~TruthNonBlank(saQ)) => saOut.value = FALSE

C7_Witness ==
  /\ saOut = Returned(FALSE)
  /\ saQ.answer = StrAns(<< "\t"," " >>)
  /\ saText = << >>

\* C8: a multiple-choice answer is scored correct exactly when the recorded
\* index is the index of the choice string-equal to the stringified ground
\* truth (the first such choice, should the list repeat it): over a list of
\* multiple-choice questions the score counts exactly those questions.
C8_McCorrectIffIndexOfTruth ==
  (/\ scOut.status = "returned"
   /\ \A k \in 1..Len(scQuestions) : scQuestions[k].choices.present)
    => scOut.value =
         Cardinality({ k \in 1..Len(scQuestions) : McIndexIsTruth(scAnswers, scQuestions[k]) })

C8_Witness ==
  /\ scOut = Returned(1)
  /\ Len(scQuestions) = 2
  /\ \A k \in 1..2 : scQuestions[k].choices.present /\ MatchingChoices(scQuestions[k]) # {}
  /\ McIndexIsTruth(scAnswers, scQuestions[2])
  /\ IdAt(1) \in DOMAIN scAnswers
  /\ scAnswers[IdAt(1)].kind = "mc"

\* C9 as stated: scoring a multiple-choice question whose ground truth
\* matches none of its choices ends in a failure that reaches the caller.
C9_UnmatchedTruthIsFatal ==
  (/\ scOut.status # "pending"
   /\ \E k \in 1..Len(scQuestions) :
        scQuestions[k].choices.present /\ MatchingChoices(scQuestions[k]) = {})
    => scOut.status = "threw"

(***************************************************************************)
(* Properties of the generator                                             *)
(***************************************************************************)
Served(r) == gOut[r].status = "returned"

\* the eligible (kind, column) pairs of a profile, counted from the catalog
EligiblePairs(profile) ==
  { pair \in { Kinds[k] : k \in 1..Len(Kinds) } \X { profile.columns[c].name : c \in 1..Len(profile.columns) } :
      \E c \in 1..Len(profile.columns) :
        profile.columns[c].name = pair[2] /\ Eligible(pair[1], profile.columns[c]) }

PairOf(q) == << q.type, q.metadata.column >>

C2_CountIsMinOfLimitAndEligible ==
  \A r \in 1..2 :
    (Served(r) /\ gLimit >= 0) =>
      LET n == Len(gOut[r].value.questions)
          e == Cardinality(EligiblePairs(gProfile))
      IN /\ n = (IF gLimit < e THEN gLimit ELSE e)
         /\ n <= gLimit
         /\ gOut[r].value.count = n

C2_Witness ==
  /\ Served(1)
  /\ Cardinality(EligiblePairs(gProfile)) = 3
  /\ gLimit = 4
  /\ Len(gOut[1].value.questions) = 3

\* C3: no (kind, column) pair occurs twice in one generated QuestionSet.
C3_NoDuplicatePair ==
  \A r \in 1..2 :
    Served(r) =>
      \A a, b \in 1..Len(gOut[r].value.questions) :
        a # b => PairOf(gOut[r].value.questions[a]) # PairOf(gOut[r].value.questions[b])

C3_Witness ==
  /\ Served(2)
  /\ Len(gOut[2].value.questions) = 4
  /\ \E a, b \in 1..4 :
       /\ a # b
       /\ gOut[2].value.questions[a].type = gOut[2].value.questions[b].type
  /\ \E a, b \in 1..4 :
       /\ a # b
       /\ gOut[2].value.questions[a].metadata.column = gOut[2].value.questions[b].metadata.column

\* C4: in a generated QuestionSet the stringified ground truth of every
\* multiple-choice question is string-equal to exactly one choice, and
\* getCorrectIndex returns the index of that choice (never null).
C4_TruthIsExactlyOneChoice ==
  \A r \in 1..2 :
    Served(r) =>
      \A k \in 1..Len(gOut[r].value.questions) :
        LET q == gOut[r].value.questions[k]
        IN q.choices.present =>
             /\ Cardinality(MatchingChoices(q)) = 1
             /\ getCorrectIndex(q, getChoices(q)) # NullIndex
             /\ getCorrectIndex(q, getChoices(q)) \in MatchingChoices(q)

C4_Witness ==
  /\ Served(1)
  /\ \E k \in 1..Len(gOut[1].value.questions) :
       LET q == gOut[1].value.questions[k]
       IN /\ q.type = "col_topk_value"
          /\ q.choices.present
          /\ getCorrectIndex(q, getChoices(q)) = 0
  /\ \E k \in 1..Len(gOut[1].value.questions) :
       LET q == gOut[1].value.questions[k]
       IN /\ q.type = "col_dtype_id"
          /\ getCorrectIndex(q, getChoices(q)) > 0

(***************************************************************************)
(* Properties of QuizPlay                                                  *)
(***************************************************************************)
currentQuestions == IF data.present THEN data.questions ELSE << >>

\* C10 as stated: whenever the quiz is displayed, the displayed score equals
\* computeScore(answerMap, current questions), also after a question fetch
\* that completes after answers were recorded.
C10_ScoreIsRederivedScore ==
  Visible => score = computeScore(answerMap, currentQuestions)

\* C11: once an answer is recorded for a question id, no step of QuizPlay
\* (choice selection, typing, key press, Prev/Next, Submit, nor a settling
\* fetch) changes or removes that record.
C11_RecordedAnswerIsNeverChanged ==
  [][\A id \in DOMAIN answerMap :
        id \in DOMAIN answerMap' /\ answerMap'[id] = answerMap[id]]_vars

\* both questions of dataset 1 are answered and the second one, revisited
\* or just submitted, is shown locked with its recorded text
C11_Witness ==
  /\ Visible /\ dataset_id = 1 /\ i = 1
  /\ DOMAIN answerMap = { questionId(1, 0, 1), questionId(1, 0, 2) }
  /\ locked
  /\ answerMap[qid] = TextSaved(textInput)

AnsweredPositions == { k \in 1..Len(scQuestions) : scQuestions[k].id \in DOMAIN scAnswers }

\* C13: a question whose id has no entry in the answer map adds 0 and the
\* call returns; so an empty answer map scores 0 on every question list and
\* the score never exceeds the number of questions with a recorded answer.
C13_UnansweredAddsNothing ==
  scOut # Pending =>
    /\ scOut.status = "returned"
    /\ (DOMAIN scAnswers = { } => scOut.value = 0)
    /\ scOut.value <= Cardinality(AnsweredPositions)

\* two questions, only one of them answered, and answered correctly
C13_Witness ==
  /\ scOut.status = "returned"
  /\ Len(scQuestions) = 2
  /\ Cardinality(AnsweredPositions) = 1
  /\ scOut.value = 1

(***************************************************************************)
(* Properties of the generator at its edges                                *)
(***************************************************************************)
\* C14: with limit <= 0, or with a profile that has no eligible
\* (kind, column) candidate, a generate request is served (no error) with
\* an empty QuestionSet: count 0 and no questions.
C14_NothingToAskIsEmptySet ==
  \A r \in 1..2 :
    (gOut[r] # Pending /\ (gLimit <= 0 \/ EligiblePairs(gProfile) = { })) =>
      /\ gOut[r].status = "returned"
      /\ gOut[r].value.count = 0
      /\ gOut[r].value.questions = << >>

\* a request with a negative limit on a profile that has candidates, and a
\* request with a positive limit on a profile that has none, were served
C14_Witness ==
  /\ Served(1)
  /\ \/ gLimit < 0 /\ Cardinality(EligiblePairs(gProfile)) >= 2
     \/ gLimit > 0 /\ EligiblePairs(gProfile) = { }
  /\ gOut[1].value.count = 0

(***************************************************************************)
(* Frame and restore properties of QuizPlay                                *)
(***************************************************************************)
\* a step that submits the current question: it locks it in place
IsSubmitStep ==
  /\ HasQ /\ ~locked /\ locked'
  /\ i' = i /\ data' = data /\ fetches' = fetches

\* C16: the answer map changes only in a Submit step, which adds an entry
\* for the current question id and leaves every other entry as it was; and
\* among the user's steps (choice click, number key, typing, Prev/Next,
\* arrow keys, Submit, Enter) only a Submit step changes the score.
C16_OnlySubmitChangesAnswersAndScore ==
  [][ /\ answerMap' # answerMap =>
           /\ IsSubmitStep
           /\ DOMAIN answerMap' = DOMAIN answerMap \cup { qid }
           /\ \A id \in DOMAIN answerMap \ { qid } : answerMap'[id] = answerMap[id]
      /\ (score' # score /\ fetches' = fetches) => IsSubmitStep
    ]_vars

\* the second question was submitted after a wrong first answer was recorded
C16_Witness ==
  /\ Visible /\ dataset_id = 1 /\ i = 1 /\ locked
  /\ questionId(1, 0, 1) \in DOMAIN answerMap
  /\ answerMap[questionId(1, 0, 1)] = McSaved(0)
  /\ qid \in DOMAIN answerMap
  /\ score = 1

\* C17: whenever the current question changes (the index moves or new
\* questions arrive), the new current question shows its saved state: locked
\* with the recorded choice or text when its id has a recorded answer,
\* unlocked with no selection and empty text when it has none.
C17_QuestionChangeRestoresSavedState ==
  [][ (data'.present /\ i' < Len(data'.questions) /\ (i' # i \/ data' # data)) =>
        LET id == data'.questions[i' + 1].id
        IN IF id \in DOMAIN answerMap'
           THEN /\ locked'
                /\ answerMap'[id].kind = "mc" =>
                     (selectedIndex' = answerMap'[id].index /\ textInput' = << >>)
                /\ answerMap'[id].kind = "text" =>
                     (selectedIndex' = NullIndex /\ textInput' = answerMap'[id].value)
           ELSE ~locked' /\ selectedIndex' = NullIndex /\ textInput' = << >>
    ]_vars

\* back on the first question after the second one was typed and submitted:
\* the recorded choice is shown and the typed text is gone
C17_Witness ==
  /\ Visible /\ dataset_id = 1 /\ i = 0 /\ locked
  /\ DOMAIN answerMap = { questionId(1, 0, 1), questionId(1, 0, 2) }
  /\ answerMap[questionId(1, 0, 2)].value # << >>
  /\ selectedIndex = answerMap[qid].index
  /\ textInput = << >>

SettledByStep(f) == f \in dvInflight /\ \A g \in dvInflight' : g.id # f.id

\* C18: a call that is not the most recently issued one changes none of
\* chunk, err, loading, rowStart and colStart when it settles (answer,
\* failure or abort); the chunk only ever becomes the answer to the most
\* recently issued call, so the chunk held is the answer of the latest call
\* that completed with an answer before a newer call replaced it.
C18_StaleCallHasNoEffect ==
  [][ /\ \A f \in dvInflight :
           (SettledByStep(f) /\ f.id # reqIdRef) =>
             UNCHANGED << chunk, dvErr, dvLoading, rowStart, colStart >>
      /\ chunk' # chunk => (chunk'.present /\ chunk'.req = reqIdRef)
      /\ IF chunk'.present THEN chunk'.req = dvAnswered' ELSE dvAnswered' = 0
    ]_vars

\* call 1 settled after call 2 had replaced it, and the chunk is the answer
\* to call 2
C18_Witness ==
  /\ dvStale = 1
  /\ chunk.present /\ chunk.req = 2
  /\ reqIdRef = 2 /\ dvInflight = { }
  /\ ~dvLoading

\* a step in which the throttle timer fires or the drag ends
AppliesPending == dvTimers' < dvTimers \/ (draggingRef /\ ~draggingRef')

\* C19: at most one throttle timer is set at any time; a pointer move while
\* the timer is set only replaces the pending target; when the timer fires
\* or the drag ends, rowStart and colStart become the most recently
\* scheduled target; after a drag has ended no timer is set and no target is
\* pending.
C19_NoPanTargetIsLost ==
  [][ /\ dvTimers' <= 1
      /\ (timerRef' # NoTimer) = (dvTimers' = 1)
      /\ dvTarget'.present => (pendingRef' = dvTarget' /\ timerRef' # NoTimer)
      /\ (timerRef # NoTimer /\ pendingRef' # pendingRef /\ pendingRef'.present) =>
           UNCHANGED << timerRef, dvTimers, rowStart, colStart >>
      /\ (AppliesPending /\ dvTarget.present) =>
           (rowStart' = dvTarget.row /\ colStart' = dvTarget.col)
      /\ ~draggingRef' => (timerRef' = NoTimer /\ ~pendingRef'.present)
    ]_vars

\* the drag ended and its last target, not the first one scheduled, is
\* where the viewport stands
C19_Witness ==
  /\ ~draggingRef /\ timerRef = NoTimer /\ ~pendingRef.present
  /\ chunk.present /\ chunk.dataset_id = 1
  /\ rowStart = 2 /\ colStart = 1
  /\ reqIdRef = 3

\* C20 as stated: every position a drag applies to rowStart (colStart) lies
\* in [0, max(0, totalRows - viewRows)] ([0, max(0, totalCols - viewCols)])
\* for the totals and view size of that moment, and after a change of the
\* view size or of the totals the starts are not beyond the new maxima.
C20_PanIsWithinBounds ==
  [][ /\ (AppliesPending /\ pendingRef.present) =>
           /\ rowStart' \in 0..maxRowStartOf(chunk', dimsOf(viewRows', viewCols'))
           /\ colStart' \in 0..maxColStartOf(chunk', dimsOf(viewRows', viewCols'))
      /\ (<< dimsOf(viewRows', viewCols'), totalRowsOf(chunk'), totalColsOf(chunk') >>
            # << dims, totalRows, totalCols >>) =>
           /\ rowStart' <= maxRowStartOf(chunk', dimsOf(viewRows', viewCols'))
           /\ colStart' <= maxColStartOf(chunk', dimsOf(viewRows', viewCols'))
    ]_vars

(***************************************************************************)
(* What a Submit of QuizPlay records                                       *)
(***************************************************************************)
\* C23: a step records an answer only when the current question is unlocked
\* and an answer is present (a selected index for a multiple-choice
\* question, text that is non-empty after trimming for a short-answer
\* question), and it records that index or that text; so no recorded text
\* answer is blank and no recorded multiple-choice answer lacks an index.
C23_SubmitNeedsAnAnswer ==
  [][ /\ answerMap' # answerMap =>
           /\ HasQ /\ ~locked
           /\ qid \in DOMAIN answerMap'
           /\ IF curChoices.present
              THEN selectedIndex # NullIndex /\ answerMap'[qid] = McSaved(selectedIndex)
              ELSE Len(trim(textInput)) > 0 /\ answerMap'[qid] = TextSaved(textInput)
      /\ \A id \in DOMAIN answerMap' :
           IF answerMap'[id].kind = "text"
           THEN Len(trim(answerMap'[id].value)) > 0
           ELSE answerMap'[id].kind = "mc" /\ answerMap'[id].index >= 0
    ]_vars

\* the last choice was recorded for the first question and a text with a
\* trailing blank for the second
C23_Witness ==
  /\ dataset_id = 1 /\ data.present
  /\ DOMAIN answerMap = { questionId(1, 0, 1), questionId(1, 0, 2) }
  /\ answerMap[questionId(1, 0, 1)] = McSaved(2)
  /\ answerMap[questionId(1, 0, 2)] = TextSaved(<< "T", "R", "U", "E", " " >>)

(***************************************************************************)
(* Properties of App                                                       *)
(***************************************************************************)
\* C21 as stated: in every reachable state of App, if no dataset is loaded
\* (info is null) the active tab is 'upload', so the upload controls are
\* rendered.
C21_NoDatasetMeansUploadTab ==
  ~info.present => tab = "upload"

(***************************************************************************)
(* Properties of SqlEditorPanel                                            *)
(***************************************************************************)
\* C22 as stated: whenever sqlReady is true (and a dataset is named by the
\* dataset_id prop), the database Run uses holds the preview rows of the
\* dataset named by the current dataset_id prop.
C22_ReadyDatabaseIsOfCurrentDataset ==
  (sqlReady /\ sqlDatasetId # NullDatasetId) =>
    (dbRef.present /\ dbRef.rows = PreviewRows(sqlDatasetId))

(***************************************************************************)
(* Properties of MultiFileHome                                             *)
(***************************************************************************)
\* the runs of onUpload / onDeleteOne / onDeleteAll that have not finished,
\* and those of them whose mutating request is in flight
HandlerRuns == { c \in mfCalls : c.kind # "initial" }
MutationsInFlight == { c \in mfCalls : c.phase = "mutation" }
BusyCleared == (uploading /\ ~uploading') \/ (mutating /\ ~mutating')

\* C24 as stated: at most one mutating request is in flight at any time, and
\* whenever the busy flag of a mutation that succeeded is cleared, the
\* dataset list shown is the list fetched from the server after it.
C24_OneMutationAndListRefreshed ==
  [][ /\ Cardinality(MutationsInFlight') <= 1
      /\ BusyCleared =>
           \A c \in HandlerRuns \ mfCalls' :
             c.phase = "refresh" => mfDatasets' = mfServer'
    ]_vars

\* C24 amended: at most one handler run (so at most one mutating request)
\* is in progress at any time; a busy flag is cleared only by the end of
\* that run, and after a successful mutation only once the fetch of the
\* list has settled: when it answered the list shown is the server's, when
\* it failed the list is left as it was and an error is shown.
C24_OneMutationAndRefreshSettled ==
  [][ /\ Cardinality(HandlerRuns') <= 1
      /\ Cardinality(HandlerRuns) <= 1
      /\ BusyCleared =>
           /\ HandlerRuns # { } /\ HandlerRuns' = { }
           /\ \A c \in HandlerRuns :
                CASE c.phase = "refresh" /\ mfDone'.outcome = "refreshed" ->
                       mfDatasets' = mfServer' /\ mfServer' = mfServer
                  [] c.phase = "refresh" ->
                       mfDatasets' = mfDatasets /\ mfErr' # ""
                  [] OTHER ->
                       /\ mfDone'.outcome = "failed"
                       /\ mfDatasets' = mfDatasets /\ mfServer' = mfServer /\ mfErr' # ""
    ]_vars

\* a delete-all ended with the list fetched again: nothing is shown, the
\* flags are clear
C24_Witness ==
  /\ mfDone = RunDone("delete-all", "refreshed")
  /\ mfIssued = 2
  /\ mfDatasets = { } /\ mfServer = { }
  /\ ~uploading /\ ~mutating /\ mfCalls = { }

====
